---- MODULE Spec2Model ----
(***************************************************************************)
(* Message routing core of the enhanced Meshtastic bridge:                 *)
(*   - MessageFilter        (src/message_filter.py)                        *)
(*   - EnhancedMeshtasticBridge._on_receive / _handle_message              *)
(*                          (src/bridge_enhanced.py)                       *)
(*   - MessageTracker       (module bridge, imported by bridge_enhanced.py *)
(*                          line 25; modelled from section 4.1 of the      *)
(*                          specification)                                 *)
(*   - DatabaseManager lock (src/database.py)                              *)
(* Strings are sequences of one-character strings, so that substring and   *)
(* case folding are computed and not assumed.                              *)
(***************************************************************************)
EXTENDS Integers, Sequences, FiniteSets, TLC

(***************************************************************************)
(* Bounds of the model.                                                    *)
(***************************************************************************)
\* number of registered links (radio1 .. radioN), in registration order
NumLinks == 3
\* number of packets the transport delivers in one behaviour
MaxDeliveries == 2
\* the clock runs from 0 to MaxTime
MaxTime == 2
\* tracker window, in clock ticks (max_age_minutes, scaled)
MaxAge == 1
\* tracker capacity (max_messages, scaled)
MaxMessages == 2
\* number of custom rules in a filter configuration
MaxRules == 2
\* number of should_forward evaluations in one behaviour of the filter
MaxCalls == 2

(***************************************************************************)
(* Strings.                                                                *)
(***************************************************************************)
UpperChars == <<"A","B","C","D","E","F","G","H","I","J","K","L","M",
                "N","O","P","Q","R","S","T","U","V","W","X","Y","Z">>
LowerChars == <<"a","b","c","d","e","f","g","h","i","j","k","l","m",
                "n","o","p","q","r","s","t","u","v","w","x","y","z">>

\* str.lower() on one character
LowerMap ==
    [c \in {UpperChars[i] : i \in 1..26} |->
        LowerChars[CHOOSE i \in 1..26 : UpperChars[i] = c]]
Lower(c) == IF c \in DOMAIN LowerMap THEN LowerMap[c] ELSE c

\* str.lower()
LowerStr(s) == [i \in 1..Len(s) |-> Lower(s[i])]

\* Python's  needle in hay  on strings
Contains(hay, needle) ==
    \E i \in 0..(Len(hay) - Len(needle)) :
        SubSeq(hay, i + 1, i + Len(needle)) = needle

Digits == <<"0","1","2","3","4","5","6","7","8","9">>
IsDigit(c) == \E i \in 1..10 : Digits[i] = c
DigitVal(c) == (CHOOSE i \in 1..10 : Digits[i] = c) - 1

\* int(pattern) succeeds (no sign, blank or underscore is in the alphabet)
IntParses(s) == Len(s) > 0 /\ \A i \in 1..Len(s) : IsDigit(s[i])
RECURSIVE IntValue(_)
IntValue(s) ==
    IF Len(s) = 0 THEN 0
    ELSE 10 * IntValue(SubSeq(s, 1, Len(s) - 1)) + DigitVal(s[Len(s)])

\* re.compile(pattern) raises re.error: the alphabet has "(" and no ")", so a
\* pattern is malformed exactly when it opens a group
RegexMalformed(p) == \E i \in 1..Len(p) : p[i] = "("
\* re.compile(pattern) raises an exception that is not re.error: OverflowError,
\* for a repetition count too large for the regex engine.  Counts are scaled
\* down: a count of two digits or more stands for such a count.
RegexOverflows(p) ==
    \E i \in 1..(Len(p) - 2) : p[i] = "{" /\ IsDigit(p[i + 1]) /\ IsDigit(p[i + 2])
(***************************************************************************)
(* The strings the inputs are drawn from.                                  *)
(***************************************************************************)
EMERGENCY == <<"E","M","E","R","G","E","N","C","Y">>
Bad123456 == <<"b","a","d","1","2","3","4","5","6">>
NodeBad == <<"!">> \o Bad123456
NodeAbc == <<"!","a","b","c">>
KwSpam == <<"s","p","a","m">>
TextEmpty == <<>>
TextHi == <<"h","i">>
TextSpam == <<"S","p","a","m">>
TextEmergency == EMERGENCY \o <<":">> \o TextHi
TextEmergencySpam == LowerStr(EMERGENCY) \o <<" ">> \o KwSpam

Nodes == {NodeBad, NodeAbc}
Channels == {0, 1}
Texts == {TextEmpty, TextHi, TextSpam, TextEmergency, TextEmergencySpam}

\* str.lower() of the strings above, computed once
LowerCache ==
    [s \in Texts \cup Nodes \cup {EMERGENCY, Bad123456, KwSpam, <<"H", "I">>} |->
        LowerStr(s)]
\* str.lower()
LowerOf(s) == IF s \in DOMAIN LowerCache THEN LowerCache[s] ELSE LowerStr(s)

\* re.compile(p, re.IGNORECASE).search(text) for a well-formed p, which over
\* this alphabet is a literal
RegexSearch(p, text) == Contains(LowerOf(text), LowerOf(p))

(***************************************************************************)
(* MessageFilter.                                                          *)
(***************************************************************************)
\* FilterRule(name, filter_type, pattern, action, priority)
FilterRule(n, t, p, a, prio) ==
    [name |-> n, filter_type |-> t, pattern |-> p, action |-> a, priority |-> prio]

ZeroStats ==
    [total_checked |-> 0, total_allowed |-> 0, total_blocked |-> 0,
     blocked_by_sender |-> 0, blocked_by_content |-> 0, blocked_by_channel |-> 0]

\* a faulty variant: r goes before the rules of its own priority
RECURSIVE InsertBeforeTies(_, _)
InsertBeforeTies(sorted, r) ==
    IF sorted = <<>> THEN <<r>>
    ELSE IF Head(sorted).priority > r.priority
         THEN <<Head(sorted)>> \o InsertBeforeTies(Tail(sorted), r)
         ELSE <<r>> \o sorted

\* list.sort(key=lambda r: r.priority, reverse=True): stable, highest first.
\* Insert r after every rule of priority >= r.priority.
RECURSIVE InsertByPriority(_, _)
InsertByPriority(sorted, r) ==
    IF sorted = <<>> THEN <<r>>
    ELSE IF Head(sorted).priority >= r.priority
         THEN <<Head(sorted)>> \o InsertByPriority(Tail(sorted), r)
         ELSE <<r>> \o sorted

\* a faulty variant: lowest priority first
RECURSIVE SortAscending(_)
SortAscending(rules) ==
    IF rules = <<>> THEN <<>>
    ELSE LET rest == SortAscending(SubSeq(rules, 1, Len(rules) - 1))
             r == rules[Len(rules)]
             lo == SelectSeq(rest, LAMBDA x : x.priority <= r.priority)
             hi == SelectSeq(rest, LAMBDA x : x.priority > r.priority)
         IN lo \o <<r>> \o hi

RECURSIVE SortByPriority(_)
SortByPriority(rules) ==
    IF rules = <<>> THEN <<>>
    ELSE InsertByPriority(SortByPriority(SubSeq(rules, 1, Len(rules) - 1)),
                          rules[Len(rules)])

\* MessageFilter.__init__ with _load_custom_rules
NewMessageFilter(config) ==
    [enabled |-> config.enabled,
     whitelist_nodes |-> config.whitelist_nodes,
     blacklist_nodes |-> config.blacklist_nodes,
     keywords |-> config.keywords,
     regex_patterns |-> SelectSeq(config.regex_patterns, LAMBDA p : ~RegexMalformed(p)),
     allowed_channels |-> config.allowed_channels,
     blocked_channels |-> config.blocked_channels,
     custom_rules |-> SortByPriority(config.custom_rules),
     stats |-> ZeroStats]

\* a faulty variant: keywords and patterns are compared case-sensitively
check_content_cased(mf, text) ==
    IF text = <<>> THEN TRUE
    ELSE /\ ~\E k \in mf.keywords : Contains(text, k)
         /\ ~\E i \in 1..Len(mf.regex_patterns) : Contains(text, mf.regex_patterns[i])

\* MessageFilter._check_content: TRUE when the content is allowed
check_content(mf, text) ==
    IF text = <<>> THEN TRUE
    ELSE /\ ~\E k \in mf.keywords : Contains(LowerOf(text), LowerOf(k))
         /\ ~\E i \in 1..Len(mf.regex_patterns) : RegexSearch(mf.regex_patterns[i], text)

\* MessageFilter._evaluate_rule
evaluate_rule(rule, message) ==
    CASE rule.filter_type = "keyword" ->
            Contains(LowerOf(message.text), LowerOf(rule.pattern))
      [] rule.filter_type = "regex" ->
            IF RegexMalformed(rule.pattern) THEN FALSE
            ELSE RegexSearch(rule.pattern, message.text)
      [] rule.filter_type = "sender" ->
            Contains(message.from, rule.pattern)
      [] rule.filter_type = "channel" ->
            IF IntParses(rule.pattern) THEN message.channel = IntValue(rule.pattern)
            ELSE FALSE
      [] OTHER -> FALSE

\* MessageFilter._evaluate_rule raises: re.compile fails with an exception that
\* the except re.error clause does not catch
evaluate_rule_raises(rule, message) ==
    /\ rule.filter_type = "regex"
    /\ ~RegexMalformed(rule.pattern)
    /\ RegexOverflows(rule.pattern)

\* MessageFilter._check_custom_rules raises: a rule raises, and no rule before
\* it in the list has decided
check_custom_rules_raises(rules, message) ==
    \E i \in 1..Len(rules) :
        /\ evaluate_rule_raises(rules[i], message)
        /\ \A j \in 1..(i - 1) :
              /\ ~evaluate_rule_raises(rules[j], message)
              /\ ~(/\ evaluate_rule(rules[j], message)
                   /\ rules[j].action \in {"block", "allow"})

\* a faulty variant: the first rule that matches ends the evaluation, and
\* admits unless its action is block
RECURSIVE check_custom_rules_first_match(_, _)
check_custom_rules_first_match(rules, message) ==
    IF rules = <<>> THEN TRUE
    ELSE IF evaluate_rule(Head(rules), message) THEN Head(rules).action # "block"
    ELSE check_custom_rules_first_match(Tail(rules), message)

\* MessageFilter._check_custom_rules: TRUE when the message is allowed
RECURSIVE check_custom_rules(_, _)
check_custom_rules(rules, message) ==
    IF rules = <<>> THEN TRUE
    ELSE IF evaluate_rule(Head(rules), message) /\ Head(rules).action = "block" THEN FALSE
    ELSE IF evaluate_rule(Head(rules), message) /\ Head(rules).action = "allow" THEN TRUE
    ELSE check_custom_rules(Tail(rules), message)

Bump(stats, keys) == [k \in DOMAIN stats |-> IF k \in keys THEN stats[k] + 1 ELSE stats[k]]

\* should_forward with the custom rules consulted before the lists and the
\* content filters
should_forward_rules_first(mf, message) ==
    IF ~mf.enabled THEN [ret |-> TRUE, raised |-> FALSE, stats |-> mf.stats]
    ELSE IF check_custom_rules_raises(mf.custom_rules, message)
    THEN [ret |-> FALSE, raised |-> TRUE, stats |-> Bump(mf.stats, {"total_checked"})]
    ELSE IF ~check_custom_rules(mf.custom_rules, message)
    THEN [ret |-> FALSE, raised |-> FALSE,
          stats |-> Bump(mf.stats, {"total_checked", "total_blocked"})]
    ELSE IF \E i \in 1..Len(mf.custom_rules) :
                evaluate_rule(mf.custom_rules[i], message)
                /\ mf.custom_rules[i].action = "allow"
    THEN [ret |-> TRUE, raised |-> FALSE,
          stats |-> Bump(mf.stats, {"total_checked", "total_allowed"})]
    ELSE IF \/ mf.whitelist_nodes # {} /\ message.from \notin mf.whitelist_nodes
            \/ message.from \in mf.blacklist_nodes
    THEN [ret |-> FALSE, raised |-> FALSE,
          stats |-> Bump(mf.stats, {"total_checked", "total_blocked", "blocked_by_sender"})]
    ELSE IF \/ mf.allowed_channels # {} /\ message.channel \notin mf.allowed_channels
            \/ message.channel \in mf.blocked_channels
    THEN [ret |-> FALSE, raised |-> FALSE,
          stats |-> Bump(mf.stats, {"total_checked", "total_blocked", "blocked_by_channel"})]
    ELSE IF ~check_content(mf, message.text)
    THEN [ret |-> FALSE, raised |-> FALSE,
          stats |-> Bump(mf.stats, {"total_checked", "total_blocked", "blocked_by_content"})]
    ELSE [ret |-> TRUE, raised |-> FALSE,
          stats |-> Bump(mf.stats, {"total_checked", "total_allowed"})]

\* MessageFilter.should_forward past the test of self.enabled: the counted
\* evaluation, step by step
should_forward_enabled(mf, message) ==
    IF mf.whitelist_nodes # {} /\ message.from \notin mf.whitelist_nodes
    THEN [ret |-> FALSE, raised |-> FALSE,
          stats |-> Bump(mf.stats, {"total_checked", "total_blocked", "blocked_by_sender"})]
    ELSE IF message.from \in mf.blacklist_nodes
    THEN [ret |-> FALSE, raised |-> FALSE,
          stats |-> Bump(mf.stats, {"total_checked", "total_blocked", "blocked_by_sender"})]
    ELSE IF mf.allowed_channels # {} /\ message.channel \notin mf.allowed_channels
    THEN [ret |-> FALSE, raised |-> FALSE,
          stats |-> Bump(mf.stats, {"total_checked", "total_blocked", "blocked_by_channel"})]
    ELSE IF message.channel \in mf.blocked_channels
    THEN [ret |-> FALSE, raised |-> FALSE,
          stats |-> Bump(mf.stats, {"total_checked", "total_blocked", "blocked_by_channel"})]
    ELSE IF ~check_content(mf, message.text)
    THEN [ret |-> FALSE, raised |-> FALSE,
          stats |-> Bump(mf.stats, {"total_checked", "total_blocked", "blocked_by_content"})]
    ELSE IF check_custom_rules_raises(mf.custom_rules, message)
    THEN [ret |-> FALSE, raised |-> TRUE, stats |-> Bump(mf.stats, {"total_checked"})]
    ELSE IF ~check_custom_rules(mf.custom_rules, message)
    THEN [ret |-> FALSE, raised |-> FALSE,
          stats |-> Bump(mf.stats, {"total_checked", "total_blocked"})]
    ELSE [ret |-> TRUE, raised |-> FALSE,
          stats |-> Bump(mf.stats, {"total_checked", "total_allowed"})]

\* a faulty variant: self.enabled is not looked at
should_forward_ignores_enabled(mf, message) == should_forward_enabled(mf, message)

\* MessageFilter.should_forward: the value returned (or raised: the exception
\* leaves the function and nothing is returned) and the counters after it
should_forward(mf, message) ==
    IF ~mf.enabled THEN [ret |-> TRUE, raised |-> FALSE, stats |-> mf.stats]
    ELSE should_forward_enabled(mf, message)

(***************************************************************************)
(* MessageTracker (imported from module bridge, which is not part of the   *)
(* sources at hand): modelled from the tracker contract, section 4.1.      *)
(* An entry older than MaxAge counts as evicted whether or not it has been *)
(* swept yet.                                                              *)
(***************************************************************************)
NewTracker == [messages |-> <<>>, total_recorded |-> 0, total_forwarded |-> 0]

\* a faulty variant: an entry never expires
LiveForever(e, t) == TRUE
\* the entry is within the age bound at time t
Live(e, t) == t - e.firstSeenAt <= MaxAge

\* Seen(id)
has_seen(tr, t, id) ==
    \E i \in 1..Len(tr.messages) : tr.messages[i].id = id /\ Live(tr.messages[i], t)

\* a faulty variant: over capacity, the oldest entry is spared
EvictSecondOldest(all) ==
    IF Len(all) > MaxMessages
    THEN <<all[1]>> \o SubSeq(all, Len(all) - MaxMessages + 2, Len(all))
    ELSE all
\* over capacity, the oldest entries are removed until the bound is met; the
\* entries are in the order they were recorded
EvictOverCapacity(all) ==
    IF Len(all) > MaxMessages THEN SubSeq(all, Len(all) - MaxMessages + 1, Len(all))
    ELSE all

\* a faulty variant: recording an id again starts its entry afresh
RecordOverwrites(tr, t, id) ==
    [tr EXCEPT !.messages = [i \in 1..Len(tr.messages) |->
                                IF tr.messages[i].id = id
                                THEN [tr.messages[i] EXCEPT !.firstSeenAt = t,
                                                            !.forwarded = FALSE,
                                                            !.forwardCount = 0]
                                ELSE tr.messages[i]]]
\* Record of an id that is tracked: first write wins, nothing changes
RecordSeen(tr, t, id) == tr

\* Record(id, from, to, text, channel, now): the tracker after the call
add_message(tr, t, id, from, text, channel) ==
    IF has_seen(tr, t, id) THEN RecordSeen(tr, t, id)
    ELSE LET purged == SelectSeq(tr.messages, LAMBDA e : Live(e, t))
             entry == [id |-> id, from |-> from, text |-> text, channel |-> channel,
                       firstSeenAt |-> t, forwarded |-> FALSE, forwardCount |-> 0]
         IN [tr EXCEPT !.messages = EvictOverCapacity(Append(purged, entry)),
                       !.total_recorded = @ + 1]

\* a faulty variant: marking clears a flag that is set
MarkedToggle(e) == [e EXCEPT !.forwarded = ~@, !.forwardCount = @ + 1]
\* forwarded = true, forwardCount + 1
Marked(e) == [e EXCEPT !.forwarded = TRUE, !.forwardCount = @ + 1]

\* MarkForwarded of an unknown id changes nothing
MarkUnknown(tr, id) == tr

\* MarkForwarded(id): the value returned
mark_forwarded_ret(tr, t, id) == has_seen(tr, t, id)

\* MarkForwarded(id): the tracker after the call
mark_forwarded(tr, t, id) ==
    IF ~has_seen(tr, t, id) THEN MarkUnknown(tr, id)
    ELSE [tr EXCEPT
            !.messages = [i \in 1..Len(tr.messages) |->
                            IF tr.messages[i].id = id /\ Live(tr.messages[i], t)
                            THEN Marked(tr.messages[i])
                            ELSE tr.messages[i]],
            !.total_forwarded = @ + 1]

\* the live entry of id
TrackedEntry(tr, t, id) ==
    tr.messages[CHOOSE i \in 1..Len(tr.messages) :
                    tr.messages[i].id = id /\ Live(tr.messages[i], t)]

(***************************************************************************)
(* Packets the transport delivers.                                         *)
(***************************************************************************)
NoId == -1
Packet(dec, port, id, from, text, ch) ==
    [decoded |-> dec, portnum |-> port, id |-> id, fromId |-> from,
     payload |-> text, channel |-> ch]

PktHi1 == Packet(TRUE, "TEXT_MESSAGE_APP", 1, NodeAbc, TextHi, 0)
PktBad2 == Packet(TRUE, "TEXT_MESSAGE_APP", 2, NodeBad, TextHi, 0)
PktSpam2 == Packet(TRUE, "TEXT_MESSAGE_APP", 2, NodeAbc, TextSpam, 1)
PktPosition == Packet(TRUE, "POSITION_APP", 3, NodeAbc, TextEmpty, 0)
PktRaw == Packet(FALSE, "TEXT_MESSAGE_APP", 3, NodeAbc, TextHi, 0)

Packets == {PktHi1, PktBad2, PktSpam2, PktPosition, PktRaw}

\* text packets that carry no id
PktNoIdHi == Packet(TRUE, "TEXT_MESSAGE_APP", NoId, NodeAbc, TextHi, 0)
PktNoIdSpam == Packet(TRUE, "TEXT_MESSAGE_APP", NoId, NodeBad, TextSpam, 1)
NoIdPackets == {PktNoIdHi, PktNoIdSpam}

\* a faulty variant: a packet without id is keyed by its channel
MsgIdByChannel(p) == IF p.id = NoId THEN p.channel ELSE p.id

\* packet.get('id', 0)
MsgId(p) == IF p.id = NoId THEN 0 ELSE p.id
MsgIds == {MsgId(p) : p \in Packets \cup NoIdPackets}

\* a faulty variant: every decoded packet is taken for a text message
IsDecoded(p) == p.decoded

\* 'decoded' in packet and decoded.get('portnum') == 'TEXT_MESSAGE_APP'
IsText(p) == p.decoded /\ p.portnum = "TEXT_MESSAGE_APP"

\* message_dict
MessageDict(p) ==
    [id |-> MsgId(p), from |-> p.fromId, text |-> p.payload, channel |-> p.channel]

(***************************************************************************)
(* State.                                                                  *)
(***************************************************************************)
VARIABLES
    message_filter,  \* the MessageFilter object, or NoFilter
    f_msg,           \* message of the last should_forward call made on the filter alone
    f_ret,           \* value it returned
    f_calls,         \* number of such calls
    f_raised,        \* TRUE when it raised instead of returning
    interfaces,      \* number of connected radios; link i is radio<i>
    stats,           \* per-link counters received / sent / errors
    tracker,         \* the MessageTracker object
    now,             \* the clock
    database,        \* TRUE when the storage collaborator is enabled
    db_lock,         \* holder of DatabaseManager.lock, or 0
    pc,              \* per listener thread: position in _handle_message
    pkt,             \* per listener thread: packet of its current or last pass
    pos,             \* per listener thread: position in the fan-out loop
    sent,            \* per listener thread: sendText calls of its current or last pass
    outcome,         \* per listener thread: how its last pass ended
    sendCount,       \* per message id and link: sendText calls since the id was recorded
    failCount,       \* per link: sendText calls that raised
    delivered,       \* number of packets delivered so far
    last_link,       \* link of the last delivery, 0 for an unknown interface
    f_pending,       \* per thread: filter counters its should_forward has yet to add to
    reg,             \* per thread: value loaded by the  += 1  it is in the middle of
    lock,            \* holder of EnhancedMeshtasticBridge.lock, or 0
    upd,             \* per thread: the per-link counter it is about to add to
    events,          \* per link and counter: times the pipeline reached its  += 1
    had_error,       \* TRUE once a routing pass has ended in the except clause
    mqtt,            \* state of the MQTT collaborator, "none" when not configured
    web,             \* state of the web collaborator, "none" when not configured
    stored,          \* per message id: DatabaseManager.add_message calls made for it
    metrics,         \* the MetricsCollector object
    m_call,          \* last call made on the MetricsCollector
    t_call,          \* last call made on the MessageTracker alone, and its result
    r_call,          \* last call of add_rule or remove_rule, and its result
    ev,              \* the _check_custom_rules loop in flight on the evaluating thread
    life             \* connect(), the background tasks and close()

filterVars == <<message_filter, f_msg, f_ret, f_calls, f_raised>>
routerVars == <<interfaces, stats, tracker, now, database, db_lock, pc, pkt, pos, sent,
                outcome, sendCount, failCount, delivered, last_link>>
auxVars == <<f_pending, reg, lock, upd, events, had_error, mqtt, web>>
extVars == <<stored, metrics, m_call, t_call, r_call, ev, life>>
vars == <<message_filter, f_msg, f_ret, f_calls, f_raised, interfaces, stats, tracker,
          now, database, db_lock, pc, pkt, pos, sent, outcome, sendCount, failCount,
          delivered, last_link, f_pending, reg, lock, upd, events, had_error, mqtt, web,
          stored, metrics, m_call, t_call, r_call, ev, life>>

\* self.message_filter = None
NoFilter == [none |-> TRUE]
HasFilter == "stats" \in DOMAIN message_filter
NoMsg == [id |-> NoId, from |-> <<>>, text |-> <<>>, channel |-> 0]
NoPacket == Packet(FALSE, "", NoId, <<>>, <<>>, 0)
AllLinks == 1..NumLinks
Links == 1..interfaces


(***************************************************************************)
(* EnhancedMeshtasticBridge: the router.  One listener thread per link     *)
(* runs _on_receive and _handle_message; pc[L] is its position:            *)
(*   idle -> filter -> record -> received -> database -> forward -> idle   *)
(* and update_node is the position inside DatabaseManager.add_message,     *)
(* which holds DatabaseManager.lock, where it calls update_node.           *)
(***************************************************************************)
AllIdle == \A L \in AllLinks : pc[L] = "idle"

\* a faulty variant: the loop does not skip the source
TargetsWithSource(L) == [i \in 1..interfaces |-> i]
\* the links the fan-out loop sends to, in registration order
Targets(L) == SelectSeq([i \in 1..interfaces |-> i], LAMBDA i : i # L)

\* a faulty variant: the duplicate check is skipped
NeverDuplicate(id) == FALSE
\* self.tracker.has_seen(msg_id)
IsDuplicate(id) == has_seen(tracker, now, id)

\* a faulty variant: an exception leaves _on_receive and ends the listener
PcRaisePropagates(L) == "dead"
\* except Exception in _handle_message, and again in _on_receive: the error is
\* logged and the callback returns
PcAfterRaise(L) == "idle"

\* should_forward raises in the pass of L
FilterRaises(L) ==
    /\ HasFilter
    /\ should_forward(message_filter, MessageDict(pkt[L])).raised

\* a faulty variant: the verdict of the filter is ignored
FilterNeverRejects(L) == FALSE
\* self.message_filter and not self.message_filter.should_forward(message_dict)
FilterRejects(L) ==
    HasFilter /\ ~should_forward(message_filter, MessageDict(pkt[L])).ret

\* a faulty variant: a failed send ends the loop
PcAbortOnFailure(L, ok) ==
    IF ~ok \/ pos[L] + 1 > Len(Targets(L)) THEN "idle" ELSE "forward"
\* a faulty variant: a send whose id is no longer tracked ends the loop
PcAbortOnUntracked(L, ok) ==
    IF (ok /\ ~has_seen(tracker, now, MsgId(pkt[L]))) \/ pos[L] + 1 > Len(Targets(L))
    THEN "idle" ELSE "forward"
\* the for loop goes on to the next target after a send, failed or not
PcAfterSend(L, ok) == IF pos[L] + 1 > Len(Targets(L)) THEN "idle" ELSE "forward"

\* a faulty variant: a sendText that raised is counted nowhere
ErrorUncounted(st, L, T) == st

\* with self.lock: self.stats[target_radio]['errors'] += 1
CountError(st, L, T) == [st EXCEPT ![T].errors = @ + 1]

\* a faulty variant: the entry is marked whether or not sendText returned
MarkAlways(L, ok) == mark_forwarded(tracker, now, MsgId(pkt[L]))
\* self.tracker.mark_forwarded(msg_id) follows sendText inside the try block
TrackerAfterSend(L, ok) ==
    IF ok THEN mark_forwarded(tracker, now, MsgId(pkt[L])) ELSE tracker

\* with self.lock: self.stats[target_radio]['sent'] += 1
CountSent(st, L, T) == [st EXCEPT ![T].sent = @ + 1]

\* what a listener thread keeps of a pass that is over is forgotten when the
\* next packet is delivered
Forget(f, L, mine, blank) ==
    [K \in AllLinks |-> IF K = L THEN mine ELSE IF pc[K] = "idle" THEN blank ELSE f[K]]

\* _on_receive with the head of _handle_message, up to the duplicate check
OnReceive(L, p) ==
    /\ pc[L] = "idle"
    /\ delivered < MaxDeliveries
    /\ delivered' = delivered + 1
    /\ last_link' = L
    /\ pkt' = Forget(pkt, L, p, NoPacket)
    /\ sent' = Forget(sent, L, <<>>, <<>>)
    /\ pos' = Forget(pos, L, 1, 1)
    /\ IF ~IsText(p)
       THEN /\ outcome' = Forget(outcome, L, "ignored", "none")
            /\ pc' = pc
       ELSE IF IsDuplicate(MsgId(p))
       THEN /\ outcome' = Forget(outcome, L, "duplicate", "none")
            /\ pc' = pc
       ELSE /\ outcome' = Forget(outcome, L, "pending", "none")
            /\ pc' = [pc EXCEPT ![L] = "filter"]
    /\ UNCHANGED <<filterVars, auxVars, extVars, interfaces, stats, tracker, now, database, db_lock,
                   sendCount, failCount>>

\* _on_receive for an interface that is not in self.interfaces
OnReceiveUnknown(p) ==
    /\ delivered < MaxDeliveries
    /\ delivered' = delivered + 1
    /\ last_link' = 0
    /\ UNCHANGED <<filterVars, auxVars, extVars, interfaces, stats, tracker, now, database, db_lock, pc,
                   pkt, pos, sent, outcome, sendCount, failCount>>

\* the filter step of _handle_message
ApplyFilter(L) ==
    /\ pc[L] = "filter"
    /\ message_filter' =
          IF HasFilter
          THEN [message_filter EXCEPT
                   !.stats = should_forward(message_filter, MessageDict(pkt[L])).stats]
          ELSE message_filter
    /\ IF FilterRaises(L)
       THEN /\ pc' = [pc EXCEPT ![L] = PcAfterRaise(L)]
            /\ outcome' = [outcome EXCEPT ![L] = "error"]
            /\ had_error' = TRUE
       ELSE IF FilterRejects(L)
       THEN /\ pc' = [pc EXCEPT ![L] = "idle"]
            /\ outcome' = [outcome EXCEPT ![L] = "filtered"]
            /\ had_error' = had_error
       ELSE /\ pc' = [pc EXCEPT ![L] = "record"]
            /\ outcome' = outcome
            /\ had_error' = had_error
    /\ UNCHANGED <<f_msg, f_ret, f_calls, f_raised, interfaces, stats, tracker, now,
                   database, db_lock, pkt, pos, sent, sendCount, failCount, delivered,
                   last_link, f_pending, reg, lock, upd, events, mqtt, web, extVars>>

\* entry = self.tracker.add_message(...)
AddToTracker(L) ==
    /\ pc[L] = "record"
    /\ tracker' = add_message(tracker, now, MsgId(pkt[L]), pkt[L].fromId,
                              pkt[L].payload, pkt[L].channel)
    /\ sendCount' = IF has_seen(tracker, now, MsgId(pkt[L])) THEN sendCount
                    ELSE [sendCount EXCEPT ![MsgId(pkt[L])] = [T \in AllLinks |-> 0]]
    /\ pc' = [pc EXCEPT ![L] = "received"]
    /\ UNCHANGED <<filterVars, auxVars, extVars, interfaces, stats, now, database, db_lock, pkt, pos,
                   sent, outcome, failCount, delivered, last_link>>

\* with self.lock: self.stats[source_radio]['received'] += 1
CountReceived(L) ==
    /\ pc[L] = "received"
    /\ stats' = [stats EXCEPT ![L].received = @ + 1]
    /\ pc' = [pc EXCEPT ![L] = "database"]
    /\ UNCHANGED <<filterVars, auxVars, extVars, interfaces, tracker, now, database, db_lock, pkt, pos,
                   sent, outcome, sendCount, failCount, delivered, last_link>>

\* where the pass goes once the hand-offs are over: the fan-out loop, or the
\* end of the pass when there is no link to send to
PcAtFanOut(L) == IF Targets(L) = <<>> THEN "idle" ELSE "forward"
\* if self.web: self.web.broadcast_message(entry)
PcAtWeb(L) == IF web # "none" THEN "web" ELSE PcAtFanOut(L)
\* if self.mqtt: self.mqtt.publish_message(entry, 'incoming')
PcAtMqtt(L) == IF mqtt # "none" THEN "mqtt" ELSE PcAtWeb(L)

\* the storage hand-off.  DatabaseManager.add_message takes
\* DatabaseManager.lock and, holding it, calls update_node.
SaveToDatabase(L) ==
    /\ pc[L] = "database"
    /\ IF database
       THEN /\ db_lock = 0
            /\ db_lock' = L
            /\ pc' = [pc EXCEPT ![L] = "update_node"]
            /\ outcome' = outcome
       ELSE /\ db_lock' = db_lock
            /\ pc' = [pc EXCEPT ![L] = PcAtMqtt(L)]
            /\ outcome' = IF PcAtMqtt(L) = "idle"
                          THEN [outcome EXCEPT ![L] = "admitted"] ELSE outcome
    /\ stored' = IF database THEN [stored EXCEPT ![MsgId(pkt[L])] = @ + 1] ELSE stored
    /\ UNCHANGED <<filterVars, auxVars, metrics, m_call, t_call, r_call, ev, life, interfaces, stats,
                   tracker, now, database, pkt, pos, sent, sendCount, failCount, delivered,
                   last_link>>

\* a faulty variant: an exception in publish_message ends the pass
PcPublishAborts(L) == IF mqtt = "raising" THEN "idle" ELSE PcAtWeb(L)
\* MQTTBridge.publish_message returns at once when not connected, and
\* catches what the client raises: it always returns
PcAfterPublish(L) == PcAtWeb(L)

\* the MQTT hand-off
PublishMqtt(L) ==
    /\ pc[L] = "mqtt"
    /\ pc' = [pc EXCEPT ![L] = PcAfterPublish(L)]
    /\ outcome' = IF PcAfterPublish(L) = "idle"
                  THEN [outcome EXCEPT ![L] = "admitted"] ELSE outcome
    /\ UNCHANGED <<filterVars, auxVars, extVars, interfaces, stats, tracker, now, database,
                   db_lock, pkt, pos, sent, sendCount, failCount, delivered, last_link>>

\* WebInterface.broadcast_message catches what socketio.emit raises: it
\* always returns
PcAfterBroadcast(L) == PcAtFanOut(L)

\* the web hand-off
BroadcastWeb(L) ==
    /\ pc[L] = "web"
    /\ pc' = [pc EXCEPT ![L] = PcAfterBroadcast(L)]
    /\ outcome' = IF PcAfterBroadcast(L) = "idle"
                  THEN [outcome EXCEPT ![L] = "admitted"] ELSE outcome
    /\ UNCHANGED <<filterVars, auxVars, extVars, interfaces, stats, tracker, now, database,
                   db_lock, pkt, pos, sent, sendCount, failCount, delivered, last_link>>

\* DatabaseManager.update_node starts by taking DatabaseManager.lock, a
\* threading.Lock: the thread goes on only when nobody holds it
UpdateNodeCanProceed(L) == pc[L] = "update_node" /\ db_lock = 0

\* one iteration of the fan-out loop: sendText on the next target, which
\* returns (ok) or raises
ForwardNext(L) ==
    /\ pc[L] = "forward"
    /\ pos[L] <= Len(Targets(L))
    /\ \E ok \in BOOLEAN :
        LET T == Targets(L)[pos[L]]
            id == MsgId(pkt[L])
        IN /\ sent' = [sent EXCEPT ![L] = Append(@,
                          [target |-> T, text |-> pkt[L].payload,
                           channel |-> pkt[L].channel, ok |-> ok])]
           /\ sendCount' = [sendCount EXCEPT ![id][T] = @ + 1]
           /\ tracker' = TrackerAfterSend(L, ok)
           /\ stats' = IF ok THEN CountSent(stats, L, T) ELSE CountError(stats, L, T)
           /\ failCount' = IF ok THEN failCount ELSE [failCount EXCEPT ![T] = @ + 1]
           /\ pos' = [pos EXCEPT ![L] = @ + 1]
           /\ pc' = [pc EXCEPT ![L] = PcAfterSend(L, ok)]
           /\ outcome' = IF PcAfterSend(L, ok) = "idle"
                         THEN [outcome EXCEPT ![L] = "admitted"] ELSE outcome
    /\ UNCHANGED <<filterVars, auxVars, extVars, interfaces, now, database, db_lock, pkt, delivered,
                   last_link>>

\* the clock advances
Tick ==
    /\ now < MaxTime
    /\ now' = now + 1
    /\ UNCHANGED <<filterVars, auxVars, extVars, interfaces, stats, tracker, database, db_lock, pc, pkt,
                   pos, sent, outcome, sendCount, failCount, delivered, last_link>>

\* filtering as configured for the router: one node on the deny-list
RouterFilterConfig ==
    [enabled |-> TRUE, whitelist_nodes |-> {}, blacklist_nodes |-> {NodeBad},
     keywords |-> {}, regex_patterns |-> <<>>, allowed_channels |-> {},
     blocked_channels |-> {}, custom_rules |-> <<>>]

\* MetricsCollector.__init__: the per-radio counters have the keys 'radio1'
\* and 'radio2'; key i stands for radio<i>
MetricKeys == {1, 2}
NewMetricsCollector ==
    [received |-> [k \in MetricKeys |-> 0],
     sent |-> [k \in MetricKeys |-> 0],
     errors |-> [k \in MetricKeys |-> 0]]
NoMetricCall == [op |-> "none", radio |-> 0, n |-> 0]

\* no call made on the tracker alone yet
NoEntry == [id |-> 0]
NoTrackerCall == [op |-> "none", id |-> 0, ret |-> FALSE, entry |-> NoEntry]

\* no _check_custom_rules loop in flight
\* no rule has been added or removed since construction
NoRuleCall == [op |-> "none", name |-> "", ret |-> FALSE]

NoEval == [pc |-> "idle", idx |-> 0, msg |-> NoMsg, snapshot |-> <<>>, ret |-> TRUE,
           n |-> 0]

\* connect(), the background tasks and close(): a bridge whose life cycle is
\* not followed
NoLife ==
    [main |-> "none", running |-> FALSE, cleanup |-> "none", stats_task |-> "none",
     metrics_server |-> "none", server_thread |-> "none", is_shut_down |-> FALSE,
     radios |-> "open", mqtt |-> "none", web |-> "none", database |-> "none",
     ports |-> 0, opened |-> <<>>, settings |-> {}, subscribed |-> FALSE,
     radio_failed |-> FALSE]

ExtInit ==
    /\ stored = [id \in MsgIds |-> 0]
    /\ metrics = NewMetricsCollector
    /\ m_call = NoMetricCall
    /\ t_call = NoTrackerCall
    /\ r_call = NoRuleCall
    /\ ev = NoEval
    /\ life = NoLife

\* the bridge after __init__ and a successful connect()
NoUpdate == [link |-> 0, key |-> "none"]

RouterInit(n, db) ==
    /\ interfaces = n
    /\ stats = [L \in 1..interfaces |-> [received |-> 0, sent |-> 0, errors |-> 0]]
    /\ tracker = NewTracker
    /\ now = 0
    /\ database = db
    /\ db_lock = 0
    /\ pc = [L \in AllLinks |-> "idle"]
    /\ pkt = [L \in AllLinks |-> NoPacket]
    /\ pos = [L \in AllLinks |-> 1]
    /\ sent = [L \in AllLinks |-> <<>>]
    /\ outcome = [L \in AllLinks |-> "none"]
    /\ sendCount = [id \in MsgIds |-> [T \in AllLinks |-> 0]]
    /\ failCount = [T \in AllLinks |-> 0]
    /\ delivered = 0
    /\ last_link = 0
    /\ f_pending = [L \in AllLinks |-> <<>>]
    /\ reg = [L \in AllLinks |-> 0]
    /\ lock = 0
    /\ upd = [L \in AllLinks |-> NoUpdate]
    /\ events = [T \in AllLinks |-> [received |-> 0, sent |-> 0, errors |-> 0]]
    /\ had_error = FALSE
    /\ ExtInit

Init ==
    /\ message_filter \in {NoFilter, NewMessageFilter(RouterFilterConfig)}
    /\ f_msg = NoMsg
    /\ f_ret = TRUE
    /\ f_calls = 0
    /\ f_raised = FALSE
    /\ mqtt = "none"
    /\ web = "none"
    /\ \E n \in 1..NumLinks, db \in BOOLEAN : RouterInit(n, db)

\* the listeners run one routing pass at a time, within one tracker window
Next ==
    \/ \E L \in Links, p \in Packets : AllIdle /\ OnReceive(L, p)
    \/ \E p \in Packets : AllIdle /\ OnReceiveUnknown(p)
    \/ \E L \in Links : ApplyFilter(L)
    \/ \E L \in Links : AddToTracker(L)
    \/ \E L \in Links : CountReceived(L)
    \/ \E L \in Links : SaveToDatabase(L)
    \/ \E L \in Links : ForwardNext(L)

Spec == Init /\ [][Next]_vars

\* the listeners run concurrently, within one tracker window
ConcNext ==
    \/ \E L \in Links, p \in Packets : OnReceive(L, p)
    \/ \E L \in Links : ApplyFilter(L)
    \/ \E L \in Links : AddToTracker(L)
    \/ \E L \in Links : CountReceived(L)
    \/ \E L \in Links : SaveToDatabase(L)
    \/ \E L \in Links : ForwardNext(L)

SpecConc == Init /\ [][ConcNext]_vars

(***************************************************************************)
(* The filter on its own: constructed from a configuration, then           *)
(* should_forward is called on messages.                                   *)
(***************************************************************************)
RuleEmergency == FilterRule("Emergency Priority", "keyword", EMERGENCY, "allow", 100)
RuleBadSender == FilterRule("Bad sender", "sender", Bad123456, "block", 0)
RuleChannel1 == FilterRule("Channel 1", "channel", <<"1">>, "block", 100)
RuleLogHi == FilterRule("Log hi", "keyword", TextHi, "log", 50)
RuleBrokenRegex == FilterRule("Broken", "regex", <<"(", "h", "i">>, "block", 50)
RuleRegexHi == FilterRule("Regex hi", "regex", <<"H", "I">>, "block", 0)
RulePool == {RuleEmergency, RuleBadSender, RuleChannel1, RuleLogHi, RuleBrokenRegex,
             RuleRegexHi}

\* the lists of at most n rules of the pool
RECURSIVE RuleLists(_)
RuleLists(n) ==
    IF n = 0 THEN {<<>>}
    ELSE RuleLists(n - 1) \cup
         {Append(l, r) : l \in {x \in RuleLists(n - 1) : Len(x) = n - 1}, r \in RulePool}

FilterConfig(en, wl, bl, kw, re, ac, bc, rules) ==
    [enabled |-> en, whitelist_nodes |-> wl, blacklist_nodes |-> bl, keywords |-> kw,
     regex_patterns |-> re, allowed_channels |-> ac, blocked_channels |-> bc,
     custom_rules |-> rules]

\* every combination of the lists, with none or one custom rule
ListConfigs(en, ruleLists) ==
    {FilterConfig(en, wl, bl, kw, re, ac, bc, rules) :
        wl \in {{}, {NodeAbc}},
        bl \in {{}, {NodeBad}, {NodeAbc}},
        kw \in {{}, {KwSpam}, {<<>>}},
        re \in {<<>>, <<(<<"(">>)>>, <<(<<"H", "I">>)>>},
        ac \in {{}, {0}},
        bc \in {{}, {1}},
        rules \in ruleLists}

FilterConfigs ==
    ListConfigs(TRUE, {<<>>, <<RuleEmergency>>, <<RuleBadSender>>})
    \cup ListConfigs(FALSE, {<<RuleBadSender>>})
    \cup {FilterConfig(TRUE, {}, {}, {}, <<>>, {}, {}, rules) : rules \in RuleLists(MaxRules)}

Messages ==
    {[id |-> 1, from |-> f, text |-> t, channel |-> c] :
        f \in Nodes, t \in Texts, c \in Channels}

FilterInit ==
    /\ message_filter \in {NewMessageFilter(c) : c \in FilterConfigs}
    /\ f_msg = NoMsg
    /\ f_ret = TRUE
    /\ f_calls = 0
    /\ f_raised = FALSE
    /\ mqtt = "none"
    /\ web = "none"
    /\ RouterInit(1, FALSE)

\* result = filter_system.should_forward(msg)
ShouldForwardCall(m) ==
    /\ f_calls < MaxCalls
    /\ f_calls' = f_calls + 1
    /\ f_msg' = m
    /\ LET r == should_forward(message_filter, m)
       IN /\ f_ret' = r.ret
          /\ f_raised' = r.raised
          /\ message_filter' = [message_filter EXCEPT !.stats = r.stats]
    /\ UNCHANGED <<routerVars, auxVars, extVars>>

FilterNext == \E m \in Messages : ShouldForwardCall(m)

SpecFilter == FilterInit /\ [][FilterNext]_vars

(***************************************************************************)
(* Properties of the router.                                               *)
(***************************************************************************)
RECURSIVE SumTo(_, _)
SumTo(f, n) == IF n = 0 THEN 0 ELSE f[n] + SumTo(f, n - 1)

\* the i-th link other than L, in registration order
OtherLink(L, i) == IF i < L THEN i ELSE i + 1

\* the pass of L is over and has admitted its message
PassAdmitted(L) == pc[L] = "idle" /\ outcome[L] = "admitted"
\* the pass of L is past the filter
PastFilter(L) == pc[L] \in {"record", "received", "database", "update_node", "forward"}

\* one sendText per link other than L, in registration order, with the
\* text and the channel of the message
SentToAllOthers(L) ==
    /\ Len(sent[L]) = interfaces - 1
    /\ \A i \in 1..Len(sent[L]) :
          /\ sent[L][i].target = OtherLink(L, i)
          /\ sent[L][i].text = pkt[L].payload
          /\ sent[L][i].channel = pkt[L].channel

\* C1: when one message id is delivered more than once, concurrently, within
\* the tracker window, one fan-out is made for it: no link gets more than one
\* sendText for the id, and the id gets at most N-1 of them in all.
C1_OneFanOutPerId ==
    \A id \in MsgIds :
        /\ \A T \in AllLinks : sendCount[id][T] <= 1
        /\ SumTo(sendCount[id], NumLinks) <= interfaces - 1

\* C2: a delivery of an id that is tracked ends at once: no sendText, and the
\* tracker, the filter counters and the per-link counters stay as they are.
C2_DuplicateIsNoOp ==
    [][(/\ delivered' = delivered + 1
        /\ last_link' \in Links
        /\ IsText(pkt'[last_link'])
        /\ has_seen(tracker, now, MsgId(pkt'[last_link'])))
       => (/\ pc'[last_link'] = "idle"
           /\ sent'[last_link'] = <<>>
           /\ UNCHANGED <<tracker, message_filter, stats, sendCount, failCount>>)]_vars

\* a tracked id was delivered again, after its fan-out
C2_Witness ==
    \E L \in AllLinks :
        /\ outcome[L] = "duplicate"
        /\ last_link = L
        /\ \E T \in AllLinks : sendCount[MsgId(pkt[L])][T] > 0

\* C3: no sendText of a routing pass targets the link the message arrived on.
C3_NoSelfForward ==
    \A L \in AllLinks : \A i \in 1..Len(sent[L]) : sent[L][i].target # L

\* a pass on the middle link of NumLinks has sent to every other link
C3_Witness ==
    /\ interfaces = NumLinks
    /\ PassAdmitted(2)
    /\ Len(sent[2]) = NumLinks - 1

\* C4: the pass of an admitted message makes one sendText per link other than
\* the source, in registration order, with the text and channel of the
\* message: when the pass is over it has made them, and until then it can
\* take its next step.
C4_AdmittedPassSendsToAllOthers ==
    \A L \in AllLinks :
        /\ PassAdmitted(L) => SentToAllOthers(L)
        /\ PastFilter(L) =>
              (ENABLED (ApplyFilter(L) \/ AddToTracker(L) \/ CountReceived(L)
                        \/ SaveToDatabase(L) \/ ForwardNext(L))
               \/ UpdateNodeCanProceed(L))

\* C5: a sendText that raises is counted against its target, and the loop
\* goes on: when the pass is over every link other than the source has had
\* its sendText, whichever of them raised.
C5_FailureIsolated ==
    /\ \A L \in AllLinks : PassAdmitted(L) => SentToAllOthers(L)
    /\ \A T \in Links : stats[T].errors = failCount[T]

\* three links, a message from link 1: sendText raised on link 2 and
\* returned on link 3
C5_Witness ==
    /\ interfaces = 3
    /\ PassAdmitted(1)
    /\ Len(sent[1]) = 2
    /\ ~sent[1][1].ok
    /\ sent[1][2].ok

\* C6: when the pass of an admitted message is over, its tracked entry is
\* flagged forwarded exactly when one of the sendText calls returned.
C6_ForwardedIffSomeSendOk ==
    \A L \in AllLinks :
        (/\ AllIdle
         /\ last_link = L
         /\ outcome[L] = "admitted"
         /\ has_seen(tracker, now, MsgId(pkt[L])))
        => (TrackedEntry(tracker, now, MsgId(pkt[L])).forwarded
               <=> \E i \in 1..Len(sent[L]) : sent[L][i].ok)

\* a pass is over in which one sendText raised and a later one returned
C6_Witness ==
    \E L \in AllLinks :
        /\ AllIdle
        /\ last_link = L
        /\ outcome[L] = "admitted"
        /\ has_seen(tracker, now, MsgId(pkt[L]))
        /\ Len(sent[L]) = 2
        /\ ~sent[L][1].ok
        /\ sent[L][2].ok

\* C7: no sendText is made for a message whose sender is on the deny-list.
C7_DeniedSenderNeverSent ==
    HasFilter =>
        \A L \in AllLinks :
            pkt[L].fromId \in message_filter.blacklist_nodes => sent[L] = <<>>

\* a message of a denied sender has been through the filter
C7_Witness ==
    /\ HasFilter
    /\ \E L \in AllLinks :
          /\ outcome[L] = "filtered"
          /\ pkt[L].fromId \in message_filter.blacklist_nodes

\* C8: a message the filter rejects is recorded in the tracker all the
\* same: has_seen(id) holds when its pass ends.
C8_FilteredIsRecorded ==
    [][\A L \in AllLinks :
          (pc[L] = "filter" /\ pc'[L] = "idle")
          => has_seen(tracker', now', MsgId(pkt[L]))]_vars


(***************************************************************************)
(* Properties of the filter.                                               *)
(***************************************************************************)
\* a keyword or a regular expression of the content filters matches the
\* text, case-insensitively
ContentMatches(mf, m) ==
    \/ \E k \in mf.keywords : Contains(LowerStr(m.text), LowerStr(k))
    \/ \E i \in 1..Len(mf.regex_patterns) : RegexSearch(mf.regex_patterns[i], m.text)

\* the custom rules that match m and whose action names an outcome
Deciding(mf, m) ==
    {i \in 1..Len(mf.custom_rules) :
        /\ evaluate_rule(mf.custom_rules[i], m)
        /\ mf.custom_rules[i].action \in {"allow", "block"}}

\* the first matching rule in the list blocks
CustomBlocks(mf, m) ==
    \E i \in Deciding(mf, m) :
        /\ mf.custom_rules[i].action = "block"
        /\ \A j \in Deciding(mf, m) : i <= j

\* the steps of the evaluation order that block m, content being step 5
BlockingSteps(mf, m, content) ==
    {i \in 1..6 :
        \/ i = 1 /\ mf.whitelist_nodes # {} /\ m.from \notin mf.whitelist_nodes
        \/ i = 2 /\ m.from \in mf.blacklist_nodes
        \/ i = 3 /\ mf.allowed_channels # {} /\ m.channel \notin mf.allowed_channels
        \/ i = 4 /\ m.channel \in mf.blocked_channels
        \/ i = 5 /\ content
        \/ i = 6 /\ CustomBlocks(mf, m)}

FirstOf(S) == CHOOSE i \in S : \A j \in S : i <= j

StepReason == <<{"blocked_by_sender"}, {"blocked_by_sender"}, {"blocked_by_channel"},
                {"blocked_by_channel"}, {"blocked_by_content"}, {}>>

\* the counters after an evaluation decided by the first of the blocking steps
StatsBy(mf, blocking) ==
    IF blocking = {} THEN Bump(mf.stats, {"total_checked", "total_allowed"})
    ELSE Bump(mf.stats, {"total_checked", "total_blocked"} \cup StepReason[FirstOf(blocking)])

\* the call just made on an enabled filter was decided by the first decisive
\* step, and counted under its reason
DecidedInOrder(content) ==
    (f_calls' = f_calls + 1 /\ message_filter.enabled)
    => /\ f_ret' = (BlockingSteps(message_filter, f_msg', content) = {})
       /\ message_filter'.stats =
             StatsBy(message_filter, BlockingSteps(message_filter, f_msg', content))

TopDeciding(mf, m) ==
    {i \in Deciding(mf, m) :
        \A j \in Deciding(mf, m) : mf.custom_rules[j].priority <= mf.custom_rules[i].priority}

EmergencyFromBad == [id |-> 1, from |-> NodeBad, text |-> TextEmergency, channel |-> 0]

\* C10: among the custom rules a matching rule of the highest priority
\* decides by its action, and a message no rule matches is admitted; with
\* the allow rule EMERGENCY at priority 100 and the block rule for sender
\* bad123456 at priority 0, EMERGENCY from !bad123456 is admitted.
C10_PriorityDecides ==
    /\ \A m \in Messages :
          IF check_custom_rules(message_filter.custom_rules, m)
          THEN \/ Deciding(message_filter, m) = {}
               \/ \E i \in TopDeciding(message_filter, m) :
                     message_filter.custom_rules[i].action = "allow"
          ELSE \E i \in TopDeciding(message_filter, m) :
                     message_filter.custom_rules[i].action = "block"
    /\ (/\ Len(message_filter.custom_rules) = 2
        /\ {message_filter.custom_rules[1], message_filter.custom_rules[2]}
              = {RuleEmergency, RuleBadSender}
        /\ f_calls > 0
        /\ f_msg = EmergencyFromBad)
       => check_custom_rules(message_filter.custom_rules, f_msg)
    /\ (/\ message_filter = [NewMessageFilter(FilterConfig(TRUE, {}, {}, {}, <<>>, {}, {},
                                 <<RuleBadSender, RuleEmergency>>))
                             EXCEPT !.stats = message_filter.stats]
        /\ f_calls > 0
        /\ f_msg = EmergencyFromBad)
       => f_ret

\* EMERGENCY from !bad123456 has been evaluated by a filter loaded with the
\* block rule first and the allow rule second
C10_Witness ==
    /\ f_calls = 1
    /\ f_msg = EmergencyFromBad
    /\ f_ret
    /\ message_filter.custom_rules = <<RuleEmergency, RuleBadSender>>
    /\ message_filter.stats.total_allowed = 1


(***************************************************************************)
(* The filter and its public operations: should_forward, add_rule,         *)
(* remove_rule, the allow-list and deny-list edits, get_stats and          *)
(* reset_stats, called one after the other on one enabled filter.          *)
(***************************************************************************)
\* a regex rule whose pattern makes re.compile raise OverflowError
RuleHugeRepeat == FilterRule("Huge repeat", "regex", <<"h", "{", "9", "9", "}">>, "block", 10)
OpsRulePool == {RuleEmergency, RuleBadSender, RuleBrokenRegex, RuleHugeRepeat}
RuleNames == {r.name : r \in OpsRulePool}

OpsConfigs ==
    {FilterConfig(TRUE, {}, bl, {}, re, {}, {}, rules) :
        bl \in {{}, {NodeBad}},
        re \in {<<>>, <<(<<"(">>), (<<"H", "I">>)>>},
        rules \in {<<>>} \cup {<<r>> : r \in OpsRulePool}}

OpsMessages ==
    {[id |-> 1, from |-> f, text |-> t, channel |-> 0] :
        f \in Nodes, t \in {TextHi, TextEmergency}}

FilterOpsInit ==
    /\ message_filter \in {NewMessageFilter(c) : c \in OpsConfigs}
    /\ f_msg = NoMsg
    /\ f_ret = TRUE
    /\ f_calls = 0
    /\ f_raised = FALSE
    /\ mqtt = "none"
    /\ web = "none"
    /\ RouterInit(1, FALSE)

FilterOpUnchanged == UNCHANGED <<f_msg, f_ret, f_calls, f_raised, routerVars, auxVars, extVars>>

RuleOpUnchanged ==
    UNCHANGED <<f_msg, f_ret, f_calls, f_raised, routerVars, auxVars, stored, metrics,
                m_call, t_call, ev, life>>

\* MessageFilter.add_rule: append, then sort; nothing is returned
AddRule(r) ==
    /\ Len(message_filter.custom_rules) < MaxRules
    /\ message_filter' =
          [message_filter EXCEPT !.custom_rules = SortByPriority(Append(@, r))]
    /\ r_call' = [op |-> "add_rule", name |-> r.name, ret |-> FALSE]
    /\ RuleOpUnchanged

\* a faulty variant: every rule of that name is removed
WithoutAllNamed(rules, name) == SelectSeq(rules, LAMBDA r : r.name # name)

\* the list without its first rule of that name
RECURSIVE WithoutFirstNamed(_, _)
WithoutFirstNamed(rules, name) ==
    IF rules = <<>> THEN <<>>
    ELSE IF Head(rules).name = name THEN Tail(rules)
    ELSE <<Head(rules)>> \o WithoutFirstNamed(Tail(rules), name)

\* the value remove_rule returns: True from inside the loop at the first rule
\* of that name, False after a loop that found none
remove_rule_ret(rules, name) == \E i \in 1..Len(rules) : rules[i].name = name

\* MessageFilter.remove_rule
RemoveRule(name) ==
    /\ message_filter' =
          [message_filter EXCEPT !.custom_rules = WithoutFirstNamed(@, name)]
    /\ r_call' = [op |-> "remove_rule", name |-> name,
                  ret |-> remove_rule_ret(message_filter.custom_rules, name)]
    /\ RuleOpUnchanged

\* MessageFilter.add_whitelist_node
AddWhitelistNode(n) ==
    /\ message_filter' = [message_filter EXCEPT !.whitelist_nodes = @ \cup {n}]
    /\ FilterOpUnchanged

\* MessageFilter.add_blacklist_node
AddBlacklistNode(n) ==
    /\ message_filter' = [message_filter EXCEPT !.blacklist_nodes = @ \cup {n}]
    /\ FilterOpUnchanged

\* MessageFilter.remove_whitelist_node
RemoveWhitelistNode(n) ==
    /\ message_filter' = [message_filter EXCEPT !.whitelist_nodes = @ \ {n}]
    /\ FilterOpUnchanged

\* MessageFilter.remove_blacklist_node
RemoveBlacklistNode(n) ==
    /\ message_filter' = [message_filter EXCEPT !.blacklist_nodes = @ \ {n}]
    /\ FilterOpUnchanged

\* MessageFilter.get_stats: a copy is returned, the filter is as it was
GetStats ==
    /\ message_filter' = message_filter
    /\ FilterOpUnchanged

\* MessageFilter.reset_stats
ResetStats ==
    /\ message_filter' = [message_filter EXCEPT !.stats = ZeroStats]
    /\ FilterOpUnchanged

FilterOpsNext ==
    \/ \E m \in OpsMessages : ShouldForwardCall(m)
    \/ \E r \in OpsRulePool : AddRule(r)
    \/ \E name \in RuleNames : RemoveRule(name)
    \/ \E n \in Nodes : AddWhitelistNode(n)
    \/ \E n \in Nodes : AddBlacklistNode(n)
    \/ \E n \in Nodes : RemoveWhitelistNode(n)
    \/ \E n \in Nodes : RemoveBlacklistNode(n)
    \/ GetStats
    \/ ResetStats

SpecFilterOps == FilterOpsInit /\ [][FilterOpsNext]_vars


(***************************************************************************)
(* Properties of the filter counters and of rule loading.                  *)
(***************************************************************************)
BlockedByReason(st) == st.blocked_by_sender + st.blocked_by_content + st.blocked_by_channel

\* C11: every should_forward call on an enabled filter adds one to
\* total_checked and one to exactly one of total_allowed and total_blocked,
\* so total_checked counts the calls and is total_allowed + total_blocked.
C11_CheckedIsAllowedPlusBlocked ==
    [][(f_calls' = f_calls + 1 /\ message_filter.enabled)
       => LET old == message_filter.stats
              new == message_filter'.stats
          IN /\ new.total_checked = old.total_checked + 1
             /\ \/ /\ new.total_allowed = old.total_allowed + 1
                   /\ new.total_blocked = old.total_blocked
                \/ /\ new.total_allowed = old.total_allowed
                   /\ new.total_blocked = old.total_blocked + 1]_vars

\* C12: every block is counted under a reason: total_blocked is the sum of
\* the per-reason counters.
C12_BlockedIsSumOfReasons ==
    message_filter.stats.total_blocked = BlockedByReason(message_filter.stats)

\* C13: no public operation of the filter makes a counter smaller.
C13_CountersNeverDecrease ==
    [][\A k \in DOMAIN ZeroStats :
          message_filter'.stats[k] >= message_filter.stats[k]]_vars

\* C16: should_forward returns a boolean and raises nothing, whatever the
\* patterns of the rules are.
C16_EvaluationNeverRaises == ~f_raised

\* C17: the active rule set holds no regex whose pattern does not compile:
\* none among the content patterns and none among the custom rules.
C17_NoMalformedRuleLoaded ==
    /\ \A i \in 1..Len(message_filter.regex_patterns) :
          ~RegexMalformed(message_filter.regex_patterns[i])
    /\ \A i \in 1..Len(message_filter.custom_rules) :
          message_filter.custom_rules[i].filter_type = "regex"
             => /\ ~RegexMalformed(message_filter.custom_rules[i].pattern)
                /\ ~RegexOverflows(message_filter.custom_rules[i].pattern)


(***************************************************************************)
(* Concurrent listeners in should_forward.  _handle_message calls it with  *)
(* no lock held, and  self.stats[k] += 1  is a load, an add and a store:   *)
(* another thread may run between the load and the store.                  *)
(***************************************************************************)
\* the counters in the order should_forward adds to them
StatOrder == <<"total_checked", "total_allowed", "total_blocked", "blocked_by_sender",
               "blocked_by_content", "blocked_by_channel">>

\* the counters one should_forward call adds to
StatsToBump(mf, m) ==
    LET r == should_forward(mf, m)
    IN SelectSeq(StatOrder, LAMBDA k : r.stats[k] # mf.stats[k])

ConcMessages == {MessageDict(PktHi1), MessageDict(PktBad2)}

FilterConcInit ==
    /\ message_filter = NewMessageFilter(RouterFilterConfig)
    /\ f_msg = NoMsg
    /\ f_ret = TRUE
    /\ f_calls = 0
    /\ f_raised = FALSE
    /\ mqtt = "none"
    /\ web = "none"
    /\ \E n \in 1..NumLinks : RouterInit(n, FALSE)

\* listener L enters should_forward
BeginShouldForward(L, m) ==
    /\ pc[L] = "idle"
    /\ f_calls < MaxCalls
    /\ f_calls' = f_calls + 1
    /\ f_pending' = [f_pending EXCEPT ![L] = StatsToBump(message_filter, m)]
    /\ pc' = [pc EXCEPT ![L] = "load"]
    /\ UNCHANGED <<message_filter, f_msg, f_ret, f_raised, interfaces, stats, tracker,
                   now, database, db_lock, pkt, pos, sent, outcome, sendCount, failCount,
                   delivered, last_link, reg, lock, upd, events, had_error, mqtt, web, extVars>>

\* self.stats[k] += 1: the load
LoadCounter(L) ==
    /\ pc[L] = "load"
    /\ reg' = [reg EXCEPT ![L] = message_filter.stats[Head(f_pending[L])]]
    /\ pc' = [pc EXCEPT ![L] = "store"]
    /\ UNCHANGED <<filterVars, interfaces, stats, tracker, now, database, db_lock, pkt,
                   pos, sent, outcome, sendCount, failCount, delivered, last_link,
                   f_pending, lock, upd, events, had_error, mqtt, web, extVars>>

\* self.stats[k] += 1: the add and the store; then the next counter, or return
StoreCounter(L) ==
    /\ pc[L] = "store"
    /\ message_filter' =
          [message_filter EXCEPT !.stats[Head(f_pending[L])] = reg[L] + 1]
    /\ f_pending' = [f_pending EXCEPT ![L] = Tail(@)]
    /\ pc' = [pc EXCEPT ![L] = IF Tail(f_pending[L]) = <<>> THEN "idle" ELSE "load"]
    /\ UNCHANGED <<f_msg, f_ret, f_calls, f_raised, interfaces, stats, tracker, now,
                   database, db_lock, pkt, pos, sent, outcome, sendCount, failCount,
                   delivered, last_link, reg, lock, upd, events, had_error, mqtt, web, extVars>>

FilterConcNext ==
    \/ \E L \in Links, m \in ConcMessages : BeginShouldForward(L, m)
    \/ \E L \in Links : LoadCounter(L)
    \/ \E L \in Links : StoreCounter(L)

SpecFilterConc == FilterConcInit /\ [][FilterConcNext]_vars

\* C14: no increment of a filter counter is lost: when no listener is inside
\* should_forward, total_checked is the number of calls made and so is
\* total_allowed + total_blocked.
C14_NoFilterCountLost ==
    AllIdle =>
        /\ message_filter.stats.total_checked = f_calls
        /\ message_filter.stats.total_allowed + message_filter.stats.total_blocked
              = f_calls


(***************************************************************************)
(* Concurrent listeners adding to the per-link statistics.  Each           *)
(*   with self.lock: self.stats[radio][key] += 1                           *)
(* is: take the lock, load, add and store, release.                        *)
(***************************************************************************)
\* the  += 1  statements reached, in all
MaxUpdates == 2
StatKeys == {"received", "sent", "errors"}
EventTotal ==
    SumTo([T \in AllLinks |-> events[T].received + events[T].sent + events[T].errors],
          NumLinks)

StatsInit ==
    /\ message_filter = NoFilter
    /\ f_msg = NoMsg
    /\ f_ret = TRUE
    /\ f_calls = 0
    /\ f_raised = FALSE
    /\ mqtt = "none"
    /\ web = "none"
    /\ \E n \in 1..NumLinks : RouterInit(n, FALSE)

\* listener L, in a pass of a message that arrived on L, reaches one of the
\* three statements: received of L, or sent or errors of a target other than L
ReachCount(L, T, k) ==
    /\ pc[L] = "idle"
    /\ EventTotal < MaxUpdates
    /\ \/ k = "received" /\ T = L
       \/ k \in {"sent", "errors"} /\ T # L
    /\ upd' = [upd EXCEPT ![L] = [link |-> T, key |-> k]]
    /\ events' = [events EXCEPT ![T][k] = @ + 1]
    /\ pc' = [pc EXCEPT ![L] = "acquire"]
    /\ UNCHANGED <<filterVars, interfaces, stats, tracker, now, database, db_lock, pkt,
                   pos, sent, outcome, sendCount, failCount, delivered, last_link,
                   f_pending, reg, lock, had_error, mqtt, web, extVars>>

\* a faulty variant: the lock is not looked at
LockIgnored == TRUE
\* threading.Lock.acquire goes on only when nobody holds the lock
LockFree == lock = 0

\* with self.lock: enter
AcquireLock(L) ==
    /\ pc[L] = "acquire"
    /\ LockFree
    /\ lock' = L
    /\ pc' = [pc EXCEPT ![L] = "stat_load"]
    /\ UNCHANGED <<filterVars, interfaces, stats, tracker, now, database, db_lock, pkt,
                   pos, sent, outcome, sendCount, failCount, delivered, last_link,
                   f_pending, reg, upd, events, had_error, mqtt, web, extVars>>

\* self.stats[radio][key] += 1: the load
LoadStat(L) ==
    /\ pc[L] = "stat_load"
    /\ reg' = [reg EXCEPT ![L] = stats[upd[L].link][upd[L].key]]
    /\ pc' = [pc EXCEPT ![L] = "stat_store"]
    /\ UNCHANGED <<filterVars, interfaces, stats, tracker, now, database, db_lock, pkt,
                   pos, sent, outcome, sendCount, failCount, delivered, last_link,
                   f_pending, lock, upd, events, had_error, mqtt, web, extVars>>

\* self.stats[radio][key] += 1: the add and the store
StoreStat(L) ==
    /\ pc[L] = "stat_store"
    /\ stats' = [stats EXCEPT ![upd[L].link][upd[L].key] = reg[L] + 1]
    /\ pc' = [pc EXCEPT ![L] = "release"]
    /\ UNCHANGED <<filterVars, interfaces, tracker, now, database, db_lock, pkt,
                   pos, sent, outcome, sendCount, failCount, delivered, last_link,
                   f_pending, reg, lock, upd, events, had_error, mqtt, web, extVars>>

\* with self.lock: leave
ReleaseLock(L) ==
    /\ pc[L] = "release"
    /\ lock' = 0
    /\ upd' = [upd EXCEPT ![L] = NoUpdate]
    /\ pc' = [pc EXCEPT ![L] = "idle"]
    /\ UNCHANGED <<filterVars, interfaces, stats, tracker, now, database, db_lock, pkt,
                   pos, sent, outcome, sendCount, failCount, delivered, last_link,
                   f_pending, reg, events, had_error, mqtt, web, extVars>>

StatsNext ==
    \/ \E L \in Links, T \in Links, k \in StatKeys : ReachCount(L, T, k)
    \/ \E L \in Links : AcquireLock(L)
    \/ \E L \in Links : LoadStat(L)
    \/ \E L \in Links : StoreStat(L)
    \/ \E L \in Links : ReleaseLock(L)

SpecStats == StatsInit /\ [][StatsNext]_vars

\* C15: no update of the per-link statistics is lost: when no listener is at
\* a  += 1,  each counter of each link is the number of times the pipeline
\* reached its  += 1;  and one listener at a time is between load and store.
C15_NoStatLost ==
    /\ AllIdle => \A T \in Links, k \in StatKeys : stats[T][k] = events[T][k]
    /\ \A L, K \in Links :
          (pc[L] \in {"stat_load", "stat_store"} /\ pc[K] \in {"stat_load", "stat_store"})
             => L = K

\* one listener has stored its update of a counter while another listener
\* waits for the lock to update the same counter
C15_Witness ==
    \E L, K \in Links :
        /\ L # K
        /\ pc[L] = "release"
        /\ pc[K] = "acquire"
        /\ upd[L] = upd[K]
        /\ stats[upd[L].link][upd[L].key] = 1
        /\ events[upd[L].link][upd[L].key] = 2


(***************************************************************************)
(* A routing pass in which something raises.  Both _handle_message and     *)
(* _on_receive wrap their body in  try ... except Exception.               *)
(***************************************************************************)
\* an exception before the duplicate check: the packet cannot be decoded
RaiseOnDelivery(L, p) ==
    /\ pc[L] = "idle"
    /\ delivered < MaxDeliveries
    /\ delivered' = delivered + 1
    /\ last_link' = L
    /\ pkt' = Forget(pkt, L, p, NoPacket)
    /\ sent' = Forget(sent, L, <<>>, <<>>)
    /\ pos' = Forget(pos, L, 1, 1)
    /\ outcome' = Forget(outcome, L, "error", "none")
    /\ pc' = [pc EXCEPT ![L] = PcAfterRaise(L)]
    /\ had_error' = TRUE
    /\ UNCHANGED <<filterVars, interfaces, stats, tracker, now, database, db_lock,
                   sendCount, failCount, f_pending, reg, lock, upd, events, mqtt, web, extVars>>

\* an exception at a later step of the pass: the filter, the tracker, the
\* counters, a hand-off, or the loop outside its own try block
RaiseInPass(L) ==
    /\ pc[L] \in {"filter", "record", "received", "database", "mqtt", "web", "forward"}
    /\ pc' = [pc EXCEPT ![L] = PcAfterRaise(L)]
    /\ outcome' = [outcome EXCEPT ![L] = "error"]
    /\ had_error' = TRUE
    /\ UNCHANGED <<filterVars, interfaces, stats, tracker, now, database, db_lock, pkt,
                   pos, sent, sendCount, failCount, delivered, last_link, f_pending,
                   reg, lock, upd, events, mqtt, web, extVars>>

FaultyNext ==
    \/ Next
    \/ \E L \in Links, p \in Packets : AllIdle /\ RaiseOnDelivery(L, p)
    \/ \E L \in Links : RaiseInPass(L)

SpecFaulty == Init /\ [][FaultyNext]_vars

\* C18: an exception in the pass of one packet stays inside the callback:
\* the listener is back at idle holding no lock, and a packet delivered
\* after it goes through the whole pipeline, to a sendText on every other
\* link.
C18_RouterSurvivesFailure ==
    \A L \in AllLinks :
        /\ outcome[L] = "error" => (pc[L] = "idle" /\ db_lock # L /\ lock # L)
        /\ PassAdmitted(L) => SentToAllOthers(L)

\* after a pass that raised, a later packet has been sent to every other link
C18_Witness ==
    /\ had_error
    /\ interfaces = NumLinks
    /\ \E L \in Links :
          /\ last_link = L
          /\ PassAdmitted(L)
          /\ Len(sent[L]) = NumLinks - 1


(***************************************************************************)
(* Termination of the storage hand-off.                                    *)
(***************************************************************************)
\* C19: the storage hand-off returns: no listener waits, inside
\* DatabaseManager.add_message, for a lock that it holds itself.
C19_StorageHandOffReturns ==
    \A L \in AllLinks : pc[L] = "update_node" => db_lock # L


(***************************************************************************)
(* The bus and UI hand-offs, with the MQTT bridge connected, disconnected  *)
(* or raising, and the web interface running or raising.                   *)
(***************************************************************************)
MqttStates == {"none", "connected", "disconnected", "raising"}
WebStates == {"none", "running", "raising"}

CollabInit ==
    /\ message_filter = NoFilter
    /\ f_msg = NoMsg
    /\ f_ret = TRUE
    /\ f_calls = 0
    /\ f_raised = FALSE
    /\ mqtt \in MqttStates
    /\ web \in WebStates
    /\ \E n \in 1..NumLinks, db \in BOOLEAN : RouterInit(n, db)

CollabNext ==
    \/ Next
    \/ \E L \in Links : PublishMqtt(L)
    \/ \E L \in Links : BroadcastWeb(L)

SpecCollab == CollabInit /\ [][CollabNext]_vars

\* C20: a pass that reaches the MQTT or the web hand-off leaves it, whatever
\* the state of the collaborator, and ends with a sendText on every link
\* other than the source.
C20_HandOffsAreBestEffort ==
    \A L \in AllLinks :
        /\ pc[L] \in {"mqtt", "web"} => ENABLED (PublishMqtt(L) \/ BroadcastWeb(L))
        /\ PassAdmitted(L) => SentToAllOthers(L)

\* with both collaborators raising, a message from link 1 of 3 has been sent
\* to links 2 and 3
C20_Witness ==
    /\ mqtt = "raising"
    /\ web = "raising"
    /\ interfaces = 3
    /\ PassAdmitted(1)
    /\ Len(sent[1]) = 2

(***************************************************************************)
(* The storage hand-off, counted per message id.                           *)
(***************************************************************************)

\* C21: with storage enabled, the router hands the record to storage
\* exactly once for every non-duplicate message, admitted by the filter or
\* rejected by it, and never for a duplicate: no id is handed over twice, and
\* a pass that ended as filtered or admitted has handed its id over once.
C21_StoredOncePerMessage ==
    database =>
        /\ \A id \in MsgIds : stored[id] <= 1
        /\ \A L \in Links :
               (pc[L] = "idle" /\ outcome[L] \in {"filtered", "admitted"})
                   => stored[MsgId(pkt[L])] = 1

(***************************************************************************)
(* The metrics collaborator: the router calls increment_received with the  *)
(* name of the source radio and increment_sent / increment_errors with the *)
(* name of the target radio; connect() names the radios radio1, radio2,    *)
(* radio3, ... in the order of the ports.                                  *)
(***************************************************************************)
MaxMetricCalls == 3

MetricOps == {"received", "sent", "errors"}

\* if radio in self.messages_<op>_total: self.messages_<op>_total[radio] += count
Increment(counter, radio) ==
    IF radio \in DOMAIN counter THEN [counter EXCEPT ![radio] = @ + 1] ELSE counter

MetricsInit ==
    /\ message_filter = NoFilter
    /\ f_msg = NoMsg
    /\ f_ret = TRUE
    /\ f_calls = 0
    /\ f_raised = FALSE
    /\ mqtt = "none"
    /\ web = "none"
    /\ \E n \in 1..NumLinks : RouterInit(n, FALSE)

MetricCall(op, L) ==
    /\ m_call.n < MaxMetricCalls
    /\ metrics' = [metrics EXCEPT ![op] = Increment(@, L)]
    /\ m_call' = [op |-> op, radio |-> L, n |-> m_call.n + 1]
    /\ UNCHANGED <<filterVars, routerVars, auxVars, stored, t_call, r_call, ev, life>>

\* self.metrics.increment_received(source_radio)
increment_received(L) == MetricCall("received", L)
\* self.metrics.increment_sent(target_radio)
increment_sent(L) == MetricCall("sent", L)
\* self.metrics.increment_errors(target_radio)
increment_errors(L) == MetricCall("errors", L)

MetricsNext ==
    \/ \E L \in Links : increment_received(L)
    \/ \E L \in Links : increment_sent(L)
    \/ \E L \in Links : increment_errors(L)

SpecMetrics == MetricsInit /\ [][MetricsNext]_vars

\* C22: the metrics collaborator keeps received, sent and errors counters
\* for every registered link name, a third or later link included: each
\* increment_received / increment_sent / increment_errors call for a link
\* raises the counter of that link by one.
C22_EveryLinkCounted ==
    [][m_call'.n = m_call.n + 1
        => /\ m_call'.radio \in DOMAIN metrics'[m_call'.op]
           /\ metrics'[m_call'.op][m_call'.radio]
                 = metrics[m_call'.op][m_call'.radio] + 1]_vars

(***************************************************************************)
(* The tracker on its own: Record and MarkForwarded are called in any      *)
(* order, on one id more than the capacity, while the clock advances.      *)
(***************************************************************************)
MaxRecords == 3
MaxForwards == 2

TrackerIds == 1..(MaxMessages + 1)
TrackerTexts == {TextHi}

TrackerInit ==
    /\ message_filter = NoFilter
    /\ f_msg = NoMsg
    /\ f_ret = TRUE
    /\ f_calls = 0
    /\ f_raised = FALSE
    /\ mqtt = "none"
    /\ web = "none"
    /\ RouterInit(1, FALSE)

TrackerUnchanged ==
    UNCHANGED <<filterVars, auxVars, stored, metrics, m_call, r_call, ev, life, interfaces, stats,
                database, db_lock, pc, pkt, pos, sent, outcome, sendCount, failCount,
                delivered, last_link>>

\* entry = self.tracker.add_message(msg_id, from_node, to_node, text, channel)
Record(id, text) ==
    /\ tracker.total_recorded < MaxRecords
    /\ tracker' = add_message(tracker, now, id, NodeAbc, text, 0)
    /\ t_call' = [op |-> "record", id |-> id, ret |-> TRUE,
                  entry |-> TrackedEntry(tracker', now, id)]
    /\ now' = now
    /\ TrackerUnchanged

\* self.tracker.mark_forwarded(msg_id)
MarkForwarded(id) ==
    /\ tracker.total_forwarded < MaxForwards
    /\ tracker' = mark_forwarded(tracker, now, id)
    /\ t_call' = [op |-> "mark_forwarded", id |-> id,
                  ret |-> mark_forwarded_ret(tracker, now, id), entry |-> NoEntry]
    /\ now' = now
    /\ TrackerUnchanged

TrackerNext ==
    \/ \E id \in TrackerIds, text \in TrackerTexts : Record(id, text)
    \/ \E id \in TrackerIds : MarkForwarded(id)
    \/ Tick

SpecTracker == TrackerInit /\ [][TrackerNext]_vars

\* the entries of a tracker, and whether an entry is still among them
Entries(tr) == {tr.messages[i] : i \in 1..Len(tr.messages)}
SameEntry(e, k) == e.id = k.id /\ e.firstSeenAt = k.firstSeenAt
Kept(e, tr) == \E k \in Entries(tr) : SameEntry(e, k)

\* C23: after any sequence of Record calls, more than maxMessages distinct
\* ids included, the tracker holds at most maxMessages entries whenever a
\* call has returned, and an entry removed while still within the age bound
\* is no younger than any entry kept (the oldest go first).
C23_CapacityHeldOldestFirst ==
    [][/\ Len(tracker'.messages) <= MaxMessages
       /\ \A e \in Entries(tracker) :
              (now - e.firstSeenAt <= MaxAge /\ ~Kept(e, tracker'))
                  => \A k \in Entries(tracker') : e.firstSeenAt <= k.firstSeenAt]_vars

\* one id more than the capacity has been recorded while none could expire:
\* the last Record evicted for capacity
C23_Witness ==
    /\ t_call.op = "record"
    /\ now <= MaxAge
    /\ tracker.total_recorded = MaxMessages + 1
    /\ Len(tracker.messages) = MaxMessages
    /\ tracker.messages[1].firstSeenAt > 0

\* C25: Record is idempotent, first write wins: a Record of an id that is
\* tracked returns the existing entry and changes nothing in the tracker
\* (no field of the entry, no second entry, the same size), and after any
\* Record of an id, Seen of that id is true.
C25_RecordIsIdempotent ==
    [][(t_call'.op = "record" /\ t_call' # t_call)
        => /\ has_seen(tracker', now', t_call'.id)
           /\ has_seen(tracker, now, t_call'.id)
                => /\ tracker' = tracker
                   /\ t_call'.entry = TrackedEntry(tracker, now, t_call'.id)]_vars

\* a Record returned an entry that an earlier call had marked: the id was
\* recorded before
C25_Witness ==
    /\ t_call.op = "record"
    /\ t_call.entry.forwarded
    /\ t_call.entry.text = TextHi
    /\ Len(tracker.messages) = 1

\* C26: the forwarded flag never goes from true to false while the entry
\* exists, however many times it is set.
C26_ForwardedNeverReverts ==
    [][\A e \in Entries(tracker) : \A k \in Entries(tracker') :
          (e.forwarded /\ SameEntry(e, k)) => k.forwarded]_vars

\* an entry has been marked twice
C26_Witness ==
    \E e \in Entries(tracker) : e.forwarded /\ e.forwardCount = 2

(***************************************************************************)
(* The router while the clock advances: an entry can leave the tracker     *)
(* between two deliveries, and between Record and a send.                  *)
(***************************************************************************)
TimedInit ==
    /\ message_filter = NoFilter
    /\ f_msg = NoMsg
    /\ f_ret = TRUE
    /\ f_calls = 0
    /\ f_raised = FALSE
    /\ mqtt = "none"
    /\ web = "none"
    /\ RouterInit(NumLinks, FALSE)

\* the packet delivered, any number of times: one text message
TimedPackets == {PktHi1}

TimedNext ==
    \/ \E L \in Links, p \in TimedPackets : AllIdle /\ OnReceive(L, p)
    \/ \E L \in Links : ApplyFilter(L)
    \/ \E L \in Links : AddToTracker(L)
    \/ \E L \in Links : CountReceived(L)
    \/ \E L \in Links : SaveToDatabase(L)
    \/ \E L \in Links : ForwardNext(L)
    \/ Tick

SpecTimed == TimedInit /\ [][TimedNext]_vars

\* the entry of id recorded longest ago has passed the age bound
Expired(id) ==
    \E e \in Entries(tracker) : e.id = id /\ now > e.firstSeenAt + MaxAge

\* C24: an entry recorded at t0 is no longer reported by Seen once the clock
\* is past t0 + maxAge, with or without a Record in between, and a packet
\* with its id delivered after that is treated as a new message.
C24_ExpiredIsUnseen ==
    [][/\ \A e \in Entries(tracker') :
              now' > e.firstSeenAt + MaxAge => ~has_seen(tracker', now', e.id)
       /\ (/\ delivered' = delivered + 1
           /\ last_link' \in Links
           /\ IsText(pkt'[last_link'])
           /\ Expired(MsgId(pkt'[last_link'])))
          => /\ outcome'[last_link'] = "pending"
             /\ pc'[last_link'] = "filter"]_vars

\* a packet has passed the duplicate check while the expired entry of its id
\* is still in the tracker
C24_Witness ==
    \E L \in Links :
        /\ pc[L] = "filter"
        /\ Expired(MsgId(pkt[L]))

\* C27: MarkForwarded of an id that is not tracked (evicted between Record
\* and the send) returns false and changes nothing in the tracker, and the
\* routing pass goes on with the remaining targets.
C27_MarkUntrackedIsHarmless ==
    [][\A L \in Links :
          (/\ pc[L] = "forward"
           /\ Len(sent'[L]) = Len(sent[L]) + 1
           /\ sent'[L][Len(sent'[L])].ok
           /\ ~has_seen(tracker, now, MsgId(pkt[L])))
          => /\ ~mark_forwarded_ret(tracker, now, MsgId(pkt[L]))
             /\ tracker' = tracker
             /\ pos'[L] = pos[L] + 1
             /\ pc'[L] = IF pos'[L] <= Len(Targets(L)) THEN "forward" ELSE "idle"
             /\ ~had_error']_vars

\* a pass has sent to two targets after the entry of its id had expired
C27_Witness ==
    \E L \in Links :
        /\ outcome[L] = "admitted"
        /\ Len(sent[L]) = 2
        /\ sent[L][1].ok /\ sent[L][2].ok
        /\ \E e \in Entries(tracker) :
               e.id = MsgId(pkt[L]) /\ ~e.forwarded /\ now > e.firstSeenAt + MaxAge

(***************************************************************************)
(* Rule maintenance while an evaluation is in flight: one thread is inside *)
(* the  for rule in self.custom_rules  loop of _check_custom_rules, which  *)
(* walks the list object itself by position, and another thread calls      *)
(* add_rule and remove_rule, which change that list in place.              *)
(***************************************************************************)
LoopRulePool == {RuleEmergency, RuleBadSender, RuleLogHi}
LoopRuleNames == {r.name : r \in LoopRulePool}

LoopConfigs ==
    {FilterConfig(TRUE, {}, {}, {}, <<>>, {}, {}, rules) :
        rules \in {<<>>} \cup {<<r>> : r \in LoopRulePool}
                        \cup {<<r, q>> : r \in LoopRulePool, q \in LoopRulePool}}

LoopMessages ==
    {[id |-> 1, from |-> f, text |-> t, channel |-> 0] :
        f \in Nodes, t \in {TextHi, TextEmergency}}

RuleLoopInit ==
    /\ message_filter \in {NewMessageFilter(c) : c \in LoopConfigs}
    /\ f_msg = NoMsg
    /\ f_ret = TRUE
    /\ f_calls = 0
    /\ f_raised = FALSE
    /\ mqtt = "none"
    /\ web = "none"
    /\ RouterInit(1, FALSE)

RuleLoopUnchanged ==
    UNCHANGED <<filterVars, routerVars, auxVars, stored, metrics, m_call, t_call, r_call, life>>

\* _check_custom_rules is entered: the iterator starts at the head of the list
BeginCheckCustomRules(m) ==
    /\ ev.pc # "loop"
    /\ ev.n < MaxCalls
    /\ ev' = [pc |-> "loop", idx |-> 1, msg |-> m,
              snapshot |-> message_filter.custom_rules, ret |-> TRUE, n |-> ev.n + 1]
    /\ RuleLoopUnchanged

\* one turn of the loop: the iterator yields the element at its position in
\* the list as it is now, or ends when the position is past the end
NextRule ==
    /\ ev.pc = "loop"
    /\ LET rules == message_filter.custom_rules
       IN IF ev.idx > Len(rules)
          THEN ev' = [ev EXCEPT !.pc = "done", !.ret = TRUE]
          ELSE IF evaluate_rule(rules[ev.idx], ev.msg) /\ rules[ev.idx].action = "block"
          THEN ev' = [ev EXCEPT !.pc = "done", !.ret = FALSE]
          ELSE IF evaluate_rule(rules[ev.idx], ev.msg) /\ rules[ev.idx].action = "allow"
          THEN ev' = [ev EXCEPT !.pc = "done", !.ret = TRUE]
          ELSE ev' = [ev EXCEPT !.idx = @ + 1]
    /\ RuleLoopUnchanged

RuleLoopNext ==
    \/ \E m \in LoopMessages : BeginCheckCustomRules(m)
    \/ NextRule
    \/ \E r \in LoopRulePool : AddRule(r)
    \/ \E name \in LoopRuleNames : RemoveRule(name)

SpecRuleLoop == RuleLoopInit /\ [][RuleLoopNext]_vars

\* C28: an add_rule or remove_rule made on another thread does not affect an
\* evaluation already in flight: the evaluation decides as the rule list it
\* started on decides.
C28_InFlightEvaluationUnaffected ==
    ev.pc = "done" => ev.ret = check_custom_rules(ev.snapshot, ev.msg)

(***************************************************************************)
(* The life cycle: the tail of connect() (metrics server, MQTT, web,       *)
(* background tasks, running = True), the two background task threads, the *)
(* metrics server thread, and close().  connect() gets this far only with  *)
(* the web interface configured, and then __init__ has set running to      *)
(* False.                                                                  *)
(***************************************************************************)
Tasks == {"cleanup", "stats_task"}

LifeInit ==
    /\ message_filter = NoFilter
    /\ f_msg = NoMsg
    /\ f_ret = TRUE
    /\ f_calls = 0
    /\ f_raised = FALSE
    /\ mqtt = "none"
    /\ web = "none"
    /\ interfaces \in 1..NumLinks
    /\ stats = [L \in 1..interfaces |-> [received |-> 0, sent |-> 0, errors |-> 0]]
    /\ tracker = NewTracker
    /\ now = 0
    /\ database = FALSE
    /\ db_lock = 0
    /\ pc = [L \in AllLinks |-> "idle"]
    /\ pkt = [L \in AllLinks |-> NoPacket]
    /\ pos = [L \in AllLinks |-> 1]
    /\ sent = [L \in AllLinks |-> <<>>]
    /\ outcome = [L \in AllLinks |-> "none"]
    /\ sendCount = [id \in MsgIds |-> [T \in AllLinks |-> 0]]
    /\ failCount = [T \in AllLinks |-> 0]
    /\ delivered = 0
    /\ last_link = 0
    /\ f_pending = [L \in AllLinks |-> <<>>]
    /\ reg = [L \in AllLinks |-> 0]
    /\ lock = 0
    /\ upd = [L \in AllLinks |-> NoUpdate]
    /\ events = [T \in AllLinks |-> [received |-> 0, sent |-> 0, errors |-> 0]]
    /\ had_error = FALSE
    /\ stored = [id \in MsgIds |-> 0]
    /\ metrics = NewMetricsCollector
    /\ m_call = NoMetricCall
    /\ t_call = NoTrackerCall
    /\ r_call = NoRuleCall
    /\ ev = NoEval
    /\ \E ms \in {"none", "created"}, mq \in {"none", "created"}, db \in {"none", "open"} :
          life = [NoLife EXCEPT !.main = "start_metrics", !.metrics_server = ms,
                                !.mqtt = mq, !.web = "created", !.database = db,
                                !.subscribed = TRUE]

LifeUnchanged ==
    UNCHANGED <<filterVars, routerVars, auxVars, stored, metrics, m_call, t_call, r_call, ev>>

\* if self.metrics_server: self.metrics_server.start()
StartMetricsServer ==
    /\ life.main = "start_metrics"
    /\ life' = IF life.metrics_server = "none"
               THEN [life EXCEPT !.main = "connect_mqtt"]
               ELSE [life EXCEPT !.main = "connect_mqtt", !.metrics_server = "serving",
                                 !.server_thread = "test"]
    /\ LifeUnchanged

\* if self.mqtt: self.mqtt.connect()
ConnectMqtt ==
    /\ life.main = "connect_mqtt"
    /\ life' = [life EXCEPT !.main = "start_web",
                            !.mqtt = IF @ = "none" THEN "none" ELSE "connected"]
    /\ LifeUnchanged

\* if self.web: self.web.start()
StartWeb ==
    /\ life.main = "start_web"
    /\ life' = [life EXCEPT !.main = "start_cleanup",
                            !.web = IF @ = "none" THEN "none" ELSE "running"]
    /\ LifeUnchanged

\* _start_background_tasks: if self.database: the cleanup thread is started
StartCleanupThread ==
    /\ life.main = "start_cleanup"
    /\ life' = [life EXCEPT !.main = "start_stats",
                            !.cleanup = IF life.database # "none" THEN "test" ELSE @]
    /\ LifeUnchanged

\* _start_background_tasks: if self.database or self.mqtt: the statistics
\* thread is started
StartStatsThread ==
    /\ life.main = "start_stats"
    /\ life' = [life EXCEPT !.main = "set_running",
                            !.stats_task = IF life.database # "none" \/ life.mqtt # "none"
                                           THEN "test" ELSE @]
    /\ LifeUnchanged

\* self.running = True, and connect() returns
SetRunning ==
    /\ life.main = "set_running"
    /\ life' = [life EXCEPT !.main = "connected", !.running = TRUE]
    /\ LifeUnchanged

\* _cleanup_task / _stats_task:  while self.running:
TaskTest(t) ==
    /\ life[t] = "test"
    /\ life' = [life EXCEPT ![t] = IF life.running THEN "body" ELSE "exited"]
    /\ LifeUnchanged

\* _cleanup_task / _stats_task: the body of the loop, sleep and work
TaskBody(t) ==
    /\ life[t] = "body"
    /\ life' = [life EXCEPT ![t] = "test"]
    /\ LifeUnchanged

\* MetricsServer._run_server:  while self.running:
ServerTest ==
    /\ life.server_thread = "test"
    /\ life' = [life EXCEPT !.server_thread =
                    IF life.metrics_server = "serving" THEN "handle_request" ELSE "exited"]
    /\ LifeUnchanged

\* MetricsServer._run_server: self.server.handle_request() returns when a
\* request has come in
ServerHandleRequest ==
    /\ life.server_thread = "handle_request"
    /\ life' = [life EXCEPT !.server_thread = "test"]
    /\ LifeUnchanged

\* close(): self.running = False
Close ==
    /\ life.main = "connected"
    /\ life' = [life EXCEPT !.main = "log_shutdown", !.running = FALSE]
    /\ LifeUnchanged

\* close(): if self.database: self.database.log_event(...), under the
\* database lock
LogShutdown ==
    /\ life.main = "log_shutdown"
    /\ life.database # "none" => db_lock = 0
    /\ life' = [life EXCEPT !.main = "close_radios"]
    /\ LifeUnchanged

\* close(): self._cleanup_connections()
CleanupConnections ==
    /\ life.main = "close_radios"
    /\ life' = [life EXCEPT !.main = "stop_metrics", !.radios = "closed"]
    /\ LifeUnchanged

\* close(): if self.metrics_server: self.metrics_server.stop().  stop sets
\* running to False and calls self.server.shutdown(), which waits for the
\* event that serve_forever sets when it ends
StopMetricsServer ==
    /\ life.main = "stop_metrics"
    /\ life' = IF life.metrics_server = "none"
               THEN [life EXCEPT !.main = "disconnect_mqtt"]
               ELSE [life EXCEPT !.main = "shutdown_wait", !.metrics_server = "stopped"]
    /\ LifeUnchanged

\* HTTPServer.shutdown returns once the event is set; serve_forever is the
\* only code that sets it, and _run_server calls handle_request instead
ShutdownCanReturn == life.main = "shutdown_wait" /\ life.is_shut_down

\* close(): if self.mqtt: self.mqtt.disconnect()
DisconnectMqtt ==
    /\ life.main = "disconnect_mqtt"
    /\ life' = [life EXCEPT !.main = "stop_web",
                            !.mqtt = IF @ = "none" THEN "none" ELSE "disconnected"]
    /\ LifeUnchanged

\* close(): if self.web: self.web.stop()
StopWeb ==
    /\ life.main = "stop_web"
    /\ life' = [life EXCEPT !.main = "close_database", !.web = "stopped"]
    /\ LifeUnchanged

\* close(): if self.database: self.database.close(), and close() returns
CloseDatabase ==
    /\ life.main = "close_database"
    /\ life' = [life EXCEPT !.main = "closed",
                            !.database = IF @ = "none" THEN "none" ELSE "closed"]
    /\ LifeUnchanged

LifeNext ==
    \/ StartMetricsServer
    \/ ConnectMqtt
    \/ StartWeb
    \/ StartCleanupThread
    \/ StartStatsThread
    \/ SetRunning
    \/ \E t \in Tasks : TaskTest(t)
    \/ \E t \in Tasks : TaskBody(t)
    \/ ServerTest
    \/ ServerHandleRequest
    \/ Close
    \/ LogShutdown
    \/ CleanupConnections
    \/ StopMetricsServer
    \/ DisconnectMqtt
    \/ StopWeb
    \/ CloseDatabase

SpecLife == LifeInit /\ [][LifeNext]_vars

\* C29: once connect() has returned with storage or MQTT enabled, the
\* cleanup task and the statistics task keep running while the bridge is
\* running, in every interleaving of the connecting thread and the task
\* threads: neither loop has exited.
C29_TasksKeepRunning ==
    (life.main = "connected" /\ life.running)
        => /\ life.database # "none" => life.cleanup \in {"test", "body"}
           /\ (life.database # "none" \/ life.mqtt # "none")
                 => life.stats_task \in {"test", "body"}

\* C30: close() returns from any running state, with any combination of
\* collaborators, the metrics server included: at the one place where it
\* waits, what it waits for has happened.
C30_CloseReturns ==
    life.main = "shutdown_wait" => ShutdownCanReturn

(***************************************************************************)
(* The lists and the content filters against the custom rules              *)
(* (SpecFilter).                                                           *)
(***************************************************************************)
\* a step before the custom rules blocks the message of the last call
BlockedBeforeRules(content) ==
    /\ f_calls > 0
    /\ message_filter.enabled
    /\ BlockingSteps(message_filter, f_msg, content) \ {6} # {}

\* C31 as stated: whatever the custom rules are, a message whose sender is
\* outside a non-empty allow-list or on the deny-list, whose channel is
\* disallowed or denied, or whose text matches a content keyword or regular
\* expression, is blocked.
C31_RulesNeverOverride ==
    BlockedBeforeRules(ContentMatches(message_filter, f_msg)) => ~f_ret

\* C31 as the code has it: the same, a content match counting only on a text
\* that is not empty.
C31_RulesNeverOverrideNonEmptyText ==
    BlockedBeforeRules(f_msg.text # <<>> /\ ContentMatches(message_filter, f_msg))
    => ~f_ret /\ ~f_raised

\* EMERGENCY from a deny-listed sender is blocked although the allow rule of
\* priority 100 matches it
C31_Witness ==
    /\ f_calls = 1
    /\ message_filter.enabled
    /\ message_filter.custom_rules = <<RuleEmergency>>
    /\ evaluate_rule(RuleEmergency, f_msg)
    /\ f_msg.from \in message_filter.blacklist_nodes
    /\ message_filter.whitelist_nodes = {}
    /\ ~f_ret
    /\ message_filter.stats.blocked_by_sender = 1

(***************************************************************************)
(* The custom rule list under add_rule and remove_rule (SpecRules): rules  *)
(* of equal priority and rules of the same name.                           *)
(***************************************************************************)
RuleEmergencyLow == FilterRule("Emergency Priority", "keyword", EMERGENCY, "block", 0)
TieRulePool == {RuleEmergency, RuleChannel1, RuleLogHi, RuleEmergencyLow, RuleBadSender}
TieRuleNames == {r.name : r \in TieRulePool}
Priorities == {r.priority : r \in TieRulePool}

\* the lists of at most n rules of the pool, in any order
RECURSIVE TieRuleLists(_)
TieRuleLists(n) ==
    IF n = 0 THEN {<<>>}
    ELSE TieRuleLists(n - 1) \cup
         {Append(l, r) : l \in {x \in TieRuleLists(n - 1) : Len(x) = n - 1},
                         r \in TieRulePool}

TieConfigs ==
    {FilterConfig(TRUE, {}, {}, {}, <<>>, {}, {}, rules) : rules \in TieRuleLists(MaxRules)}

RulesInit ==
    /\ message_filter \in {NewMessageFilter(c) : c \in TieConfigs}
    /\ f_msg = NoMsg
    /\ f_ret = TRUE
    /\ f_calls = 0
    /\ f_raised = FALSE
    /\ mqtt = "none"
    /\ web = "none"
    /\ RouterInit(1, FALSE)

RulesNext ==
    \/ \E r \in TieRulePool : AddRule(r)
    \/ \E name \in TieRuleNames : RemoveRule(name)

SpecRules == RulesInit /\ [][RulesNext]_vars

\* the rules of priority p, in list order
OfPriority(rules, p) == SelectSeq(rules, LAMBDA r : r.priority = p)

HighestFirst(rules) ==
    \A i, j \in 1..Len(rules) : i < j => rules[i].priority >= rules[j].priority

\* seq without its k-th element
WithoutAt(seq, k) == SubSeq(seq, 1, k - 1) \o SubSeq(seq, k + 1, Len(seq))

\* C32: after construction and after every add_rule and remove_rule the list
\* is ordered by priority, highest first, and the rules of one priority are
\* in the order in which they were added: construction keeps them in the order
\* of the configuration, add_rule puts the new rule behind them, remove_rule
\* takes at most one of them away and moves none.
C32_PriorityOrderStable ==
    /\ \A c \in TieConfigs :
          /\ HighestFirst(NewMessageFilter(c).custom_rules)
          /\ \A p \in Priorities :
                OfPriority(NewMessageFilter(c).custom_rules, p) = OfPriority(c.custom_rules, p)
    /\ [][LET old == message_filter.custom_rules
              new == message_filter'.custom_rules
          IN /\ HighestFirst(new)
             /\ \A r \in TieRulePool :
                   AddRule(r) =>
                      \A p \in Priorities :
                         OfPriority(new, p) = IF p = r.priority
                                              THEN Append(OfPriority(old, p), r)
                                              ELSE OfPriority(old, p)
             /\ \A name \in TieRuleNames :
                   RemoveRule(name) =>
                      \A p \in Priorities :
                         \/ OfPriority(new, p) = OfPriority(old, p)
                         \/ \E k \in 1..Len(OfPriority(old, p)) :
                               OfPriority(new, p) = WithoutAt(OfPriority(old, p), k)]_vars

\* the allow rule EMERGENCY added to a list that held the block rule for
\* channel 1, of the same priority: it stands behind it
C32_Witness ==
    /\ r_call = [op |-> "add_rule", name |-> RuleEmergency.name, ret |-> FALSE]
    /\ message_filter.custom_rules = <<RuleChannel1, RuleEmergency>>

\* C40: remove_rule(name) removes the first rule of that name in list order,
\* which is priority order, and no other, and returns true; when no rule has
\* that name it returns false and the list is as it was; the rules that stay
\* keep their relative order.
C40_RemoveFirstNamed ==
    [][\A name \in TieRuleNames :
          RemoveRule(name) =>
             LET old == message_filter.custom_rules
                 new == message_filter'.custom_rules
                 hits == {i \in 1..Len(old) : old[i].name = name}
             IN IF hits = {}
                THEN new = old /\ ~r_call'.ret
                ELSE /\ new = WithoutAt(old, FirstOf(hits))
                     /\ Len(new) = Len(old) - 1
                     /\ r_call'.ret]_vars

\* of two rules named Emergency Priority the one of priority 100 was removed
\* and the one of priority 0 is still there
C40_Witness ==
    /\ r_call = [op |-> "remove_rule", name |-> RuleEmergency.name, ret |-> TRUE]
    /\ message_filter.custom_rules = <<RuleEmergencyLow>>

(***************************************************************************)
(* Packets the router drops (Spec).                                        *)
(***************************************************************************)
\* the step is a delivery of a packet without decoded section, or of another
\* port than text, or from an interface that is not registered
DroppedDelivery ==
    /\ delivered' = delivered + 1
    /\ \/ last_link' = 0
       \/ /\ last_link' # 0
          /\ \/ ~pkt'[last_link'].decoded
             \/ pkt'[last_link'].portnum # "TEXT_MESSAGE_APP"

\* C33: a packet with no decoded section, or not a text message, or from an
\* interface that is not registered, is dropped without effect: nothing is
\* sent, the tracker, the filter and its counters, the per-link counters and
\* the storage are as they were, and the handler has returned without error.
C33_DroppedWithoutEffect ==
    [][DroppedDelivery
        => /\ UNCHANGED <<sendCount, failCount, tracker, message_filter, stats, stored,
                          events, had_error>>
           /\ AllIdle'
           /\ last_link' # 0 => /\ sent'[last_link'] = <<>>
                                /\ outcome'[last_link'] = "ignored"]_vars

\* a position packet is dropped on a bridge that has forwarded a text message
\* before
C33_Witness ==
    /\ delivered = 2
    /\ last_link # 0
    /\ pkt[last_link] = PktPosition
    /\ outcome[last_link] = "ignored"
    /\ AllIdle
    /\ \E L \in Links : /\ stats[L].received = 1
                         /\ \A T \in Links \ {L} : stats[T].sent = 1
    /\ interfaces = NumLinks

(***************************************************************************)
(* The per-link counters between routing passes (Spec).                    *)
(***************************************************************************)
\* the sum over the links of one counter
LinkSum(key) == SumTo([L \in Links |-> stats[L][key]], interfaces)

\* C34: when no routing pass is in progress, the sent and error counters of
\* all the links add up to N-1 times the received counters of all the links.
C34_CountersBalance ==
    AllIdle => LinkSum("sent") + LinkSum("errors") = (interfaces - 1) * LinkSum("received")

\* two messages were received on a bridge of three links, and of the four
\* sendText calls some returned and some raised
C34_Witness ==
    /\ AllIdle
    /\ interfaces = NumLinks
    /\ LinkSum("received") = 2
    /\ LinkSum("sent") > 0
    /\ LinkSum("errors") > 0

(***************************************************************************)
(* connect() from its first line (SpecConnect): detection of the radios,   *)
(* the loop that opens them, the statistics, the subscription, and the     *)
(* tail that starts the collaborators.  Opening a radio, and reading its   *)
(* settings, returns or raises.                                            *)
(***************************************************************************)
ConnectInit ==
    /\ message_filter = NoFilter
    /\ f_msg = NoMsg
    /\ f_ret = TRUE
    /\ f_calls = 0
    /\ f_raised = FALSE
    /\ mqtt = "none"
    /\ web = "none"
    /\ interfaces = 0
    /\ stats = [L \in 1..interfaces |-> [received |-> 0, sent |-> 0, errors |-> 0]]
    /\ tracker = NewTracker
    /\ now = 0
    /\ database = FALSE
    /\ db_lock = 0
    /\ pc = [L \in AllLinks |-> "idle"]
    /\ pkt = [L \in AllLinks |-> NoPacket]
    /\ pos = [L \in AllLinks |-> 1]
    /\ sent = [L \in AllLinks |-> <<>>]
    /\ outcome = [L \in AllLinks |-> "none"]
    /\ sendCount = [id \in MsgIds |-> [T \in AllLinks |-> 0]]
    /\ failCount = [T \in AllLinks |-> 0]
    /\ delivered = 0
    /\ last_link = 0
    /\ f_pending = [L \in AllLinks |-> <<>>]
    /\ reg = [L \in AllLinks |-> 0]
    /\ lock = 0
    /\ upd = [L \in AllLinks |-> NoUpdate]
    /\ events = [T \in AllLinks |-> [received |-> 0, sent |-> 0, errors |-> 0]]
    /\ had_error = FALSE
    /\ stored = [id \in MsgIds |-> 0]
    /\ metrics = NewMetricsCollector
    /\ m_call = NoMetricCall
    /\ t_call = NoTrackerCall
    /\ r_call = NoRuleCall
    /\ ev = NoEval
    /\ \E n \in 1..NumLinks, ms \in {"none", "created"}, mq \in {"none", "created"},
          wb \in {"none", "created"}, db \in {"none", "open"} :
          life = [NoLife EXCEPT !.main = "detect", !.ports = n, !.metrics_server = ms,
                                !.mqtt = mq, !.web = wb, !.database = db]

ConnectUnchanged ==
    UNCHANGED <<filterVars, auxVars, stored, metrics, m_call, t_call, r_call, ev, tracker,
                now, database, db_lock, pc, pkt, pos, sent, outcome, sendCount, failCount,
                delivered, last_link>>

\* __init__ creates radio_settings, running and stats only inside
\* if web_config.get('enabled')
HasWebAttributes(l) == l.web # "none"

\* a faulty variant: only the interface opened last is closed
CloseNewestOnly(ifaces) ==
    [i \in DOMAIN ifaces |-> IF i = Len(ifaces) THEN "closed" ELSE ifaces[i]]

\* _cleanup_connections: close() is called on every interface of
\* self.interfaces
cleanup_connections(ifaces) == [i \in DOMAIN ifaces |-> "closed"]

\* connect(): the ports are detected or taken from the configuration; a
\* RuntimeError leaves connect() at once
DetectRadios ==
    /\ life.main = "detect"
    /\ \E ok \in BOOLEAN :
          life' = IF ok THEN [life EXCEPT !.main = "open_radio"]
                  ELSE [life EXCEPT !.main = "raised", !.radio_failed = TRUE]
    /\ UNCHANGED <<interfaces, stats>>
    /\ ConnectUnchanged

\* the loop body: SerialInterface(port) returns and the interface is
\* appended, or it raises
OpenRadio ==
    /\ life.main = "open_radio"
    /\ \E ok \in BOOLEAN :
          IF ok
          THEN /\ life' = [life EXCEPT !.main = "check_settings",
                                       !.opened = Append(@, "open")]
               /\ interfaces' = interfaces + 1
          ELSE /\ life' = [life EXCEPT !.main = "cleanup", !.radio_failed = TRUE]
               /\ interfaces' = interfaces
    /\ UNCHANGED stats
    /\ ConnectUnchanged

\* the loop body: settings = DeviceManager.check_radio_settings(...), then
\* self.radio_settings[radio_name] = settings
CheckSettings ==
    /\ life.main = "check_settings"
    /\ \E ok \in BOOLEAN :
          life' = IF ~ok
                  THEN [life EXCEPT !.main = "cleanup", !.radio_failed = TRUE]
                  ELSE IF ~HasWebAttributes(life)
                  THEN [life EXCEPT !.main = "cleanup"]
                  ELSE [life EXCEPT !.settings = @ \cup {interfaces},
                                    !.main = IF interfaces < life.ports
                                             THEN "open_radio" ELSE "init_stats"]
    /\ UNCHANGED <<interfaces, stats>>
    /\ ConnectUnchanged

\* the except clause of the loop: self._cleanup_connections(), then raise
ExceptCleanup ==
    /\ life.main = "cleanup"
    /\ life' = [life EXCEPT !.main = "raised", !.opened = cleanup_connections(@)]
    /\ UNCHANGED <<interfaces, stats>>
    /\ ConnectUnchanged

\* self.stats = {name: {...} for name in self.radio_names}
InitStats ==
    /\ life.main = "init_stats"
    /\ stats' = [L \in 1..interfaces |-> [received |-> 0, sent |-> 0, errors |-> 0]]
    /\ life' = [life EXCEPT !.main = "subscribe"]
    /\ UNCHANGED interfaces
    /\ ConnectUnchanged

\* pub.subscribe(self._on_receive, "meshtastic.receive")
Subscribe ==
    /\ life.main = "subscribe"
    /\ life' = [life EXCEPT !.main = "start_metrics", !.subscribed = TRUE]
    /\ UNCHANGED <<interfaces, stats>>
    /\ ConnectUnchanged

ConnectNext ==
    \/ DetectRadios
    \/ OpenRadio
    \/ CheckSettings
    \/ ExceptCleanup
    \/ InitStats
    \/ Subscribe
    \/ StartMetricsServer
    \/ ConnectMqtt
    \/ StartWeb
    \/ StartCleanupThread
    \/ StartStatsThread
    \/ SetRunning

SpecConnect == ConnectInit /\ [][ConnectNext]_vars

\* connect() is in its except clause or has raised
ConnectFailed == life.main \in {"cleanup", "raised"}

\* C35: when connecting to a radio fails, connect() raises: it goes to its
\* except clause and nowhere else; when it has raised, every interface opened
\* before is closed; the bridge has not subscribed, no server or background
\* thread has been started, and running is not true.
C35_FailedConnectLeavesNothing ==
    /\ life.radio_failed => ConnectFailed
    /\ life.main = "raised" =>
          \A i \in 1..Len(life.opened) : life.opened[i] = "closed"
    /\ ConnectFailed =>
          /\ ~life.subscribed
          /\ life.cleanup = "none"
          /\ life.stats_task = "none"
          /\ life.server_thread = "none"
          /\ ~life.running
          /\ stats = <<>>

\* the third radio could not be opened on a bridge with storage: the two
\* opened before are closed
C35_Witness ==
    /\ life.main = "raised"
    /\ life.radio_failed
    /\ life.ports = NumLinks
    /\ life.database # "none"
    /\ Len(life.opened) = NumLinks - 1
    /\ \A i \in 1..Len(life.opened) : life.opened[i] = "closed"

\* no optional collaborator is configured
AllDisabled ==
    /\ life.web = "none"
    /\ life.mqtt = "none"
    /\ life.database = "none"
    /\ life.metrics_server = "none"

\* C36: with every optional collaborator disabled and the radios reachable,
\* connect() does not fail: it goes on to subscribe and to set running, with
\* one statistics entry per radio.
C36_DefaultConnectCompletes ==
    (AllDisabled /\ ~life.radio_failed)
        => /\ ~ConnectFailed
           /\ life.main = "connected" =>
                 /\ life.running
                 /\ life.subscribed
                 /\ interfaces = life.ports
                 /\ DOMAIN stats = 1..life.ports

(***************************************************************************)
(* Text packets without id (SpecNoId): the router of SpecTimed, fed with   *)
(* id-less messages of different senders, texts and channels while the     *)
(* clock advances.                                                         *)
(***************************************************************************)
NoIdNext ==
    \/ \E L \in Links, p \in NoIdPackets : AllIdle /\ OnReceive(L, p)
    \/ \E L \in Links : ApplyFilter(L)
    \/ \E L \in Links : AddToTracker(L)
    \/ \E L \in Links : CountReceived(L)
    \/ \E L \in Links : SaveToDatabase(L)
    \/ \E L \in Links : ForwardNext(L)
    \/ Tick

SpecNoId == TimedInit /\ [][NoIdNext]_vars

\* the step is the delivery of a text packet without id on a registered link
NoIdDelivery ==
    /\ delivered' = delivered + 1
    /\ last_link' \in Links
    /\ pkt'[last_link'].id = NoId
    /\ pkt'[last_link'].decoded
    /\ pkt'[last_link'].portnum = "TEXT_MESSAGE_APP"

\* C37: every packet without id is keyed 0: it is recorded under 0, and
\* while an entry of id 0 is within the window a further text message without
\* id, whatever its sender, text and link, is treated as a duplicate and is
\* not forwarded.
C37_IdlessSharesKeyZero ==
    [][/\ (NoIdDelivery /\ has_seen(tracker, now, 0))
          => /\ outcome'[last_link'] = "duplicate"
             /\ AllIdle'
             /\ UNCHANGED <<tracker, stats, sendCount>>
       /\ \A L \in Links :
             (pc[L] = "record" /\ pc'[L] = "received" /\ pkt[L].id = NoId)
                => has_seen(tracker', now', 0)]_vars

\* the id-less message of another sender, with another text, on another
\* channel and another link is dropped as a duplicate of the first
C37_Witness ==
    /\ delivered = 2
    /\ last_link = 2
    /\ pkt[2] = PktNoIdSpam
    /\ outcome[2] = "duplicate"
    /\ \E e \in Entries(tracker) : e.id = 0 /\ e.text = TextHi /\ e.from = NodeAbc
    /\ stats[1].received = 1
    /\ stats[2].received = 0
    /\ sendCount[0] = [T \in AllLinks |-> IF T = 1 THEN 0 ELSE 1]

(***************************************************************************)
(* Custom rules whose action is neither allow nor block, and the filter    *)
(* that is disabled (SpecFilter).                                          *)
(***************************************************************************)
\* the custom rules that match m and whose action names no outcome
PassedOver(mf, m) ==
    {i \in 1..Len(mf.custom_rules) :
        /\ evaluate_rule(mf.custom_rules[i], m)
        /\ mf.custom_rules[i].action \notin {"allow", "block"}}

\* the last call reached the custom rules, and the first rule that matched
\* has an action that is neither allow nor block
ReachedOtherAction ==
    /\ f_calls > 0
    /\ message_filter.enabled
    /\ ~f_raised
    /\ BlockingSteps(message_filter, f_msg,
                     f_msg.text # <<>> /\ ContentMatches(message_filter, f_msg)) \ {6} = {}
    /\ \E i \in PassedOver(message_filter, f_msg) :
          \A j \in Deciding(message_filter, f_msg) : i < j

\* C38: a matching custom rule whose action is neither allow nor block does
\* not end the evaluation: the next matching rule in list order whose action
\* is allow or block decides, and when there is none the message is admitted.
C38_OtherActionFallsThrough ==
    ReachedOtherAction
        => f_ret = (\/ Deciding(message_filter, f_msg) = {}
                    \/ message_filter.custom_rules[
                           FirstOf(Deciding(message_filter, f_msg))].action = "allow")

\* the rule with action log matches first, and the block rule for the sender,
\* of lower priority, decides
C38_Witness ==
    /\ f_calls = 1
    /\ message_filter.custom_rules = <<RuleLogHi, RuleBadSender>>
    /\ f_msg.text = TextHi
    /\ f_msg.from = NodeBad
    /\ ReachedOtherAction
    /\ ~f_ret
    /\ message_filter.stats.total_blocked = 1

\* C39: a filter constructed with enabled = false admits every message and
\* counts nothing, whatever its lists and rules are.
C39_DisabledAdmitsAll ==
    [][(f_calls' = f_calls + 1 /\ ~message_filter.enabled)
        => /\ f_ret'
           /\ ~f_raised'
           /\ message_filter'.stats = message_filter.stats
           /\ message_filter'.stats = ZeroStats]_vars

\* the disabled filter has admitted, twice, a message that its deny-list, its
\* channel list, its keywords and its block rule would each have blocked
C39_Witness ==
    /\ f_calls = 2
    /\ ~message_filter.enabled
    /\ f_ret
    /\ f_msg.from \in message_filter.blacklist_nodes
    /\ f_msg.channel \in message_filter.blocked_channels
    /\ KwSpam \in message_filter.keywords
    /\ f_msg.text = TextSpam
    /\ evaluate_rule(RuleBadSender, f_msg)
    /\ message_filter.custom_rules = <<RuleBadSender>>
    /\ message_filter.stats = ZeroStats

=============================================================================
